---- MODULE Spec2Model ----
(***************************************************************************)
(* Model of the HTTP/1 upstream connection pool of sofa-mosn               *)
(* (pkg/stream/http/connpool.go): the free list of active clients, the     *)
(* total client count, the per-client flags, and the statistics the pool   *)
(* keeps on the host and on the cluster.                                   *)
(*                                                                         *)
(* Concurrency.  Every access to availableClients and totalClientCount is  *)
(* made with clientMux held, so each critical section is one atomic step.  *)
(* NewStream with a client in hand is two steps: getAvailableClient (the    *)
(* critical section) and the rest of the function, which runs without the  *)
(* mutex.                                                                  *)
(*                                                                         *)
(* Environment.  The transport connection, the codec client and the        *)
(* resource manager are collaborators of the pool.  A connection delivers  *)
(* at most one close event; a codec client reports at most one reset and   *)
(* exactly one destroy per stream; the requests resource is shared by the  *)
(* pools of every host of the cluster, which may hold any part of it.      *)
(*                                                                         *)
(* Spec is the pool with its close events delivered by tasks of their own. *)
(* SpecSync adds Close delivering a close event inside its critical        *)
(* section, clientMux held.                                                *)
(*                                                                         *)
(* The module also models, each with variables and a specification of its  *)
(* own over the one initial state:                                         *)
(*   SpecPipe       the rendezvous pipe between Dispatch and Read of an    *)
(*                  HTTP/1 stream connection, byte by byte;                *)
(*   SpecClient     the parser task and the streams of a client stream     *)
(*                  connection, message by message;                        *)
(*   SpecRespond    those of a server stream connection whose driver       *)
(*                  answers every request; SpecServer, whose driver also   *)
(*                  pauses the delivery and resets streams;                *)
(*   SpecCodec      a stream connection of either side;                    *)
(*   SpecDetect     ProtocolMatch on the first bytes of a connection;      *)
(*   SpecKeepAlive  the keep-alive controller of an upstream codec;        *)
(*   SpecTransfer   the metrics store handed over to a new process by      *)
(*                  makesTransferData and readTransferData;                *)
(*   SpecTransferServer  the server that takes the handed-over metrics     *)
(*                  from a connection and answers with a status byte;      *)
(*   SpecListener   the listener list of a stream;                         *)
(*   SpecConfig     the cluster list of the configuration;                 *)
(*   SpecLogger     concurrent calls of the error-logger manager.          *)
(* SpecRepeat is the pool over a transport that repeats close events,      *)
(* SpecUnsolicited the client stream connection with a peer that sends     *)
(* responses nobody asked for.                                             *)
(***************************************************************************)
EXTENDS Integers, Sequences, FiniteSets, TLC

\* ---------------------------------------------------------------- bounds
MaxCalls == 3          \* NewStream calls, each made by a task of its own
MaxConnections == 2    \* ResourceManager().Connections().Max()
MaxRequests == 2       \* ceiling of ResourceManager().Requests()
MaxResets == 1         \* stream resets over one behaviour
MaxWrap == 1           \* how far below zero totalClientCount is followed
MaxListeners == 4      \* listeners one stream holds at a time
NumListeners == 3      \* distinct listener objects
NumClusterNames == 3   \* distinct cluster names
MaxLogCalls == 3       \* concurrent calls of GetOrCreateErrorLogger
MaxServed == 2         \* connections the transfer server accepts
MaxSize == 3           \* largest body length a header announces
MaxBytes == 3          \* bytes the transport hands to Dispatch in total
MaxSlice == 2          \* len(p) of a Read
MaxStreams == 2        \* streams of one stream connection
MaxReadDisable == 2    \* ReadDisable calls on one stream connection
MaxMagic == 7          \* bytes of a connection shown to ProtocolMatch
MaxProbes == 3         \* SendKeepAlive calls on one keep-alive controller
Threshold == 2         \* the failure threshold the controller is made with
MaxIdleCount == 3      \* maxIdleCount: probes in a row before the idle close
MaxUpdates == 4        \* registrations and updates made on the metrics store
ReservoirSize == 2     \* values the sample of a histogram holds

\* The calls are numbered in the order in which they take clientMux; any
\* number of them may be between their two steps at the same time.
Threads == 1..MaxCalls
Clients == 1..MaxCalls         \* identities of the activeClient objects
Nil == 0                       \* the nil *activeClient

\* --------------------------------------------------------- event kinds
\* The close events (ConnectionEvent.IsClose()).  The pool tells LocalClose
\* and RemoteClose apart from the rest, for which OnReadErrClose stands.
CloseEvents == {"LocalClose", "RemoteClose", "OnReadErrClose"}
ConnectOutcomes == {"Connected", "ConnectFailed", "ConnectTimeout"}
ResetReasons == {"StreamConnectionTermination", "StreamConnectionFailed",
                 "StreamLocalReset", "StreamRemoteReset", "StreamOverflow"}

StatNames == {"UpstreamRequestPendingOverflow", "UpstreamRequestTotal",
              "UpstreamRequestActive", "UpstreamConnectionTotal",
              "UpstreamConnectionActive", "UpstreamConnectionConFail",
              "UpstreamRequestTimeout", "UpstreamRequestFailureEject",
              "UpstreamRequestLocalReset", "UpstreamRequestRemoteReset",
              "UpstreamConnectionLocalCloseWithActiveRequest",
              "UpstreamConnectionRemoteCloseWithActiveRequest"}

VARIABLES
    availableClients,    \* connPool.availableClients: sequence of clients
    totalClientCount,    \* connPool.totalClientCount (uint64, see U64Lt)
    closed,              \* activeClient.closed, per client
    closeWithActiveReq,  \* activeClient.closeWithActiveReq, per client
    nCreated,            \* number of activeClient objects allocated so far
    conn,                \* state of each client's transport connection
    connectErr,          \* clients whose Connect returned an error
    stream,              \* state of the stream of each client's codec
    handedOut,           \* clients returned by getAvailableClient and not
                         \* yet given back by onStreamDestroy
    requests,            \* this pool's share of ResourceManager().Requests()
    hostStats,           \* host.HostStats() counters
    clusterStats,        \* host.ClusterInfo().Stats() counters
    pc,                  \* position of each driver task in NewStream
    held,                \* NewStream's local c of each task
    reason,              \* NewStream's local reason of each task
    notified,            \* what each task's listener was told by its call
    nCalls,              \* NewStream calls started so far
    destroyLog,          \* history: the clients given back by a stream
                         \* destroy while not closed, and neither taken
                         \* again nor closed since, oldest first
    nResets,             \* onStreamReset calls so far
    clientMux            \* connPool.clientMux: "free", or the function
                         \* that holds it and waits for it again

\* The pipe of an HTTP/1 stream connection (streamConnection).
VARIABLES
    bufChan,             \* streamConnection.bufChan: "open" or "closed"
    transport,           \* what the connection has told OnEvent so far
    dispatchPc,          \* where the task that calls Dispatch stands
    buffer,              \* the IoBuffer handed to Dispatch, what is left
    nDispatched,         \* bytes handed to Dispatch so far
    readPc,              \* where the parser task stands, in Read or not
    pLen,                \* len(p) of the Read that is running
    readOut,             \* the bytes Read has copied out, in order
    panicked             \* the functions that have panicked

\* The parser task and the streams of an HTTP/1 stream connection
\* (clientStreamConnection, serverStreamConnection, clientStream,
\* serverStream), message by message.
VARIABLES
    side,                \* "none" before construction, "client" or "server"
    servePc,             \* where serve stands
    current,             \* csc.stream, ssc.stream: a stream or Nil
    nStreams,            \* streams created so far
    readDisableCount,    \* stream.readDisableCount, per stream
    message,             \* s.response of a client stream, s.request of a
                         \* server stream
    observed,            \* what the receiver and the listeners of each
                         \* stream were told, in order
    reqLog,              \* client: the streams whose request was written,
                         \* in the order of the writes
    nDecoded,            \* messages the parser has taken from the pipe
    ended,               \* server: how far endStream has come, per stream
    responseDone,        \* server: streams whose responseDoneChan is full
    written,             \* server: the Connection header each response
                         \* was given by the driver and was written with
    nReadDisable         \* ReadDisable calls so far

\* Protocol detection (streamConnFactory.ProtocolMatch, part_003).
VARIABLES
    magic,               \* the first bytes of a connection, read so far
    matched              \* what ProtocolMatch said of them, "none" before

\* The keep-alive controller of one upstream codec (sofaRPCKeepAlive).
VARIABLES
    stop,                \* the stop channel is closed: the controller is Stopped
    codec,               \* the codec: "open" or "closed"
    pending,             \* the pending map: the ids of the probes not settled
    timers,              \* the probes whose timer can still fire
    inflight,            \* the probes whose response can still come
    timeoutCount,        \* timeoutCount
    idleWatch,           \* StartIdleTimeout was called
    idleCount,           \* probes since the last application stream
    sent,                \* probes sent; the id of a probe is its number
    sendCalls,           \* SendKeepAlive calls made
    statuses             \* what the callbacks were told, and for which probe

\* The metrics store of a process and its handoff (package metrics).
VARIABLES
    defaultStore,        \* the registered metrics: type and labels -> key -> metric
    body,                \* the bytes makesTransferData returned, <<>> before
    source,              \* the store as makesTransferData found it
    handoff,             \* how far the handoff is
    nUpdates             \* registrations and updates made so far

\* The event listeners of one stream (stream.streamCbs).
VARIABLES
    streamCbs            \* stream.streamCbs: the listeners, in the order added

\* The cluster list of the configuration (package config).
VARIABLES
    Clusters,            \* config.ClusterManager.Clusters: the cluster configs, in order
    dirty                \* what the last removeClusterConfig returned

\* The error-logger manager (pkg/log/logger_manager.go).
VARIABLES
    managers,            \* ErrorLoggerManager.managers: output path -> logger, NoLogger if none
    mutex,               \* ErrorLoggerManager.mutex: the call that holds it, Nil if free
    calls,               \* the calls of GetOrCreateErrorLogger: where each stands, its arguments and results
    created              \* the output paths of the loggers the create functions have made, in order

\* The metrics transfer server (TransferServer, serveConn) of the process that
\* takes over.
VARIABLES
    serverStore,         \* the registered metrics of the serving process
    request,             \* what the peer of the last served connection sent
    reply,               \* the bytes the server wrote to the last served connection
    serverPc,            \* "serving", or "crashed" after a panic no task recovers
    nServed              \* connections served so far

poolVars == <<availableClients, totalClientCount, closed, closeWithActiveReq,
              nCreated, conn, connectErr, stream, handedOut, requests,
              hostStats, clusterStats, pc, held, reason, notified, nCalls,
              destroyLog, nResets, clientMux>>

pipeVars == <<bufChan, transport, dispatchPc, buffer, nDispatched, readPc,
              pLen, readOut, panicked>>

serveVars == <<side, servePc, current, nStreams, readDisableCount, message,
               observed, reqLog, nDecoded, ended, responseDone, written,
               nReadDisable>>

detectVars == <<magic, matched>>

keepAliveVars == <<stop, codec, pending, timers, inflight, timeoutCount,
                   idleWatch, idleCount, sent, sendCalls, statuses>>

transferVars == <<defaultStore, body, source, handoff, nUpdates>>

listenerVars == <<streamCbs>>

configVars == <<Clusters, dirty>>

loggerVars == <<managers, mutex, calls, created>>

transferServerVars == <<serverStore, request, reply, serverPc, nServed>>

vars == <<poolVars, pipeVars, serveVars, detectVars, keepAliveVars,
          transferVars,
          listenerVars,
          configVars,
          loggerVars,
          transferServerVars>>

\* What a specification of one component leaves alone.
notPool == <<pipeVars, serveVars, detectVars, keepAliveVars, transferVars,
    listenerVars,
    configVars,
    loggerVars,
    transferServerVars>>
notPipe == <<poolVars, serveVars, detectVars, keepAliveVars, transferVars,
    listenerVars,
    configVars,
    loggerVars,
    transferServerVars>>
notServe == <<poolVars, dispatchPc, buffer, readPc, pLen, readOut, detectVars,
              keepAliveVars, transferVars,
    listenerVars,
    configVars,
    loggerVars,
    transferServerVars>>
notDetect == <<poolVars, pipeVars, serveVars, keepAliveVars, transferVars,
    listenerVars,
    configVars,
    loggerVars,
    transferServerVars>>
notKeepAlive == <<poolVars, pipeVars, serveVars, detectVars, transferVars,
    listenerVars,
    configVars,
    loggerVars,
    transferServerVars>>
notTransfer == <<poolVars, pipeVars, serveVars, detectVars, keepAliveVars,
    listenerVars,
    configVars,
    loggerVars,
    transferServerVars>>
notListener == <<poolVars, pipeVars, serveVars, detectVars,
    keepAliveVars, transferVars,
    configVars,
    loggerVars,
    transferServerVars>>
notConfig == <<poolVars, pipeVars, serveVars, detectVars,
    keepAliveVars, transferVars, listenerVars,
    loggerVars,
    transferServerVars>>
notLogger == <<poolVars, pipeVars, serveVars, detectVars,
    keepAliveVars, transferVars, listenerVars, configVars,
    transferServerVars>>
notTransferServer == <<poolVars, pipeVars, serveVars, detectVars,
    keepAliveVars, transferVars, listenerVars, configVars,
    loggerVars>>

\* ------------------------------------------------------------- helpers
\* totalClientCount is a uint64.  A value is kept as the representative of
\* its residue modulo 2^64 that lies nearest to zero, so that 2^64 - k is
\* held as -k; increment and decrement are then +1 and -1, and only the
\* comparison has to be made unsigned.
U64Lt(a, b) ==
    IF a < 0 THEN (b < 0 /\ a < b) ELSE (b < 0 \/ a < b)

Inc(stats, name) == [stats EXCEPT ![name] = @ + 1]
Dec(stats, name) == [stats EXCEPT ![name] = @ - 1]

Range(s) == {s[i] : i \in 1..Len(s)}

\* The sequence without the entries equal to c.
Forget(s, c) == SelectSeq(s, LAMBDA x : x # c)

Failure(r) == [kind |-> "Failure", reason |-> r, client |-> Nil]
Ready(c) == [kind |-> "Ready", reason |-> "", client |-> c]

\* newClientStreamConnection, newServerStreamConnection: an open channel
\* without buffer, the parser task started and not yet in Read.
PipeInit ==
    /\ bufChan = "open"
    /\ transport = "new"
    /\ dispatchPc = "idle"
    /\ buffer = <<>>
    /\ nDispatched = 0
    /\ readPc = "parse"
    /\ pLen = 0
    /\ readOut = <<>>
    /\ panicked = {}

Streams == 1..MaxStreams

\* The nil *fasthttp.Response / *fasthttp.Request.  A decoded message has
\* its place idx >= 1 among the messages decoded on the connection.
\* The response of a stream that has not been written.
Unwritten == [given |-> "", sent |-> "unwritten"]

NoMsg == [idx |-> 0, close |-> FALSE, hasData |-> FALSE, http11 |-> FALSE]

\* Before newClientStreamConnection / newServerStreamConnection.
ServeInit ==
    /\ side = "none"
    /\ servePc = "none"
    /\ current = Nil
    /\ nStreams = 0
    /\ readDisableCount = [s \in Streams |-> 0]
    /\ message = [s \in Streams |-> NoMsg]
    /\ observed = [s \in Streams |-> <<>>]
    /\ reqLog = <<>>
    /\ nDecoded = 0
    /\ ended = [s \in Streams |-> "no"]
    /\ responseDone = {}
    /\ written = [s \in Streams |-> Unwritten]
    /\ nReadDisable = 0

PoolInit ==
    /\ availableClients = <<>>
    /\ totalClientCount = 0
    /\ closed = [c \in Clients |-> FALSE]
    /\ closeWithActiveReq = [c \in Clients |-> FALSE]
    /\ nCreated = 0
    /\ conn = [c \in Clients |-> "none"]
    /\ connectErr = {}
    /\ stream = [c \in Clients |-> "none"]
    /\ handedOut = {}
    /\ requests = 0
    /\ hostStats = [n \in StatNames |-> 0]
    /\ clusterStats = [n \in StatNames |-> 0]
    /\ pc = [t \in Threads |-> "idle"]
    /\ held = [t \in Threads |-> Nil]
    /\ reason = [t \in Threads |-> ""]
    /\ notified = [t \in Threads |-> <<>>]
    /\ nCalls = 0
    /\ destroyLog = <<>>
    /\ nResets = 0
    /\ clientMux = "free"

DetectInit ==
    /\ magic = <<>>
    /\ matched = "none"

\* NewSofaRPCKeepAlive(codec, proto, timeout, thres) on a connected codec.
KeepAliveInit ==
    /\ stop = FALSE
    /\ codec = "open"
    /\ pending = {}
    /\ timers = {}
    /\ inflight = {}
    /\ timeoutCount = 0
    /\ idleWatch = FALSE
    /\ idleCount = 0
    /\ sent = 0
    /\ sendCalls = 0
    /\ statuses = <<>>

\* ResetAll(): a store with nothing registered, no handoff begun.
TransferInit ==
    /\ defaultStore = <<>>
    /\ body = <<>>
    /\ source = <<>>
    /\ handoff = "source"
    /\ nUpdates = 0

\* A stream is made with no listener.
ListenerInit == streamCbs = <<>>

\* The configuration before any cluster is added: no cluster, and no call
\* of removeClusterConfig that removed one.
ConfigInit ==
    /\ Clusters = <<>>
    /\ dirty = FALSE

\* init(), lines 37-46: the manager with the start logger, made for the
\* console path "" (path 0), as its one entry; no call is running.
LoggerInit ==
    /\ managers = [p \in {0, 1, 2} |-> IF p = 0 THEN 1 ELSE 0]
    /\ mutex = Nil
    /\ calls = [t \in 1..MaxLogCalls |->
                   [pc |-> "idle", p |-> 0, f |-> "nil", lg |-> 0, err |-> ""]]
    /\ created = <<0>>

\* TransferServer is listening; no connection was accepted yet.
TransferServerInit ==
    /\ serverStore = <<>>
    /\ request = [header |-> 0, size |-> 0, wire |-> <<>>]
    /\ reply = <<>>
    /\ serverPc = "serving"
    /\ nServed = 0

Init ==
    /\ PoolInit /\ PipeInit /\ ServeInit /\ DetectInit /\ KeepAliveInit
    /\ TransferInit
    /\ ListenerInit
    /\ ConfigInit
    /\ LoggerInit
    /\ TransferServerInit

\* ------------------------------------------- the resource manager
\* ResourceManager().Requests().CanCreate(): the cluster-wide number of
\* requests is below its ceiling.  The resource is shared by the pools of
\* every host of the cluster: what the others hold at the time of the call
\* is an input of NewStream, any number that keeps the total at or below the
\* ceiling.
CanCreate(cur) == cur < MaxRequests

\* ------------------------------------ getAvailableClient, its parts
\* Variant: the test made with <= in place of <.
MayCreateClient_le(total, maxConns) == ~U64Lt(maxConns, total)

\* The test of line 106: a client may be created while the unsigned count
\* is below the connection maximum.
MayCreateClient(total, maxConns) == U64Lt(total, maxConns)

\* Variant: the client is taken from the front of the list.
PopIndex_fifo(list) == 1

\* Lines 115-116: the index of the client taken from a non-empty list.
PopIndex(list) == Len(list)

\* Variant: the list is not shortened.
PopRest_keep(list) == list

\* Lines 117-118: the list that is left after the client at PopIndex is
\* taken.
PopRest(list) == SubSeq(list, 1, Len(list) - 1)

\* Variant: the refusal is not counted.
PendingOverflowStats_none(stats) == stats

\* Lines 110-111: the counters of a call refused at the connection maximum.
PendingOverflowStats(stats) == Inc(stats, "UpstreamRequestPendingOverflow")

\* newActiveClient: allocate the next activeClient, register it as the
\* listener of its connection and Connect synchronously.  Connect delivers
\* its event to the listeners before it returns: Connected falls through
\* onConnectionEvent; ConnectFailed bumps UpstreamConnectionConFail;
\* ConnectTimeout bumps UpstreamRequestTimeout and calls codecClient.Close(),
\* after which the connection may deliver LocalClose.  On an error the
\* function returns (nil, ConnectionFailure); otherwise it counts the
\* connection and returns the client.
newActiveClient(t, outcome) ==
    LET c == nCreated + 1 IN
    /\ nCreated' = c
    /\ UNCHANGED <<closed, closeWithActiveReq>>
    /\ CASE outcome = "Connected" ->
              /\ conn' = [conn EXCEPT ![c] = "open"]
              /\ connectErr' = connectErr
              /\ hostStats' = Inc(Inc(hostStats, "UpstreamConnectionTotal"),
                                  "UpstreamConnectionActive")
              /\ clusterStats' = Inc(Inc(clusterStats, "UpstreamConnectionTotal"),
                                     "UpstreamConnectionActive")
              /\ held' = [held EXCEPT ![t] = c]
              /\ reason' = [reason EXCEPT ![t] = ""]
              /\ handedOut' = handedOut \cup {c}
         [] outcome = "ConnectFailed" ->
              /\ conn' = [conn EXCEPT ![c] = "failed"]
              /\ connectErr' = connectErr \cup {c}
              /\ hostStats' = Inc(hostStats, "UpstreamConnectionConFail")
              /\ clusterStats' = Inc(clusterStats, "UpstreamConnectionConFail")
              /\ held' = [held EXCEPT ![t] = Nil]
              /\ reason' = [reason EXCEPT ![t] = "ConnectionFailure"]
              /\ handedOut' = handedOut
         [] outcome = "ConnectTimeout" ->
              /\ conn' = [conn EXCEPT ![c] = "closing"]
              /\ connectErr' = connectErr \cup {c}
              /\ hostStats' = Inc(hostStats, "UpstreamRequestTimeout")
              /\ clusterStats' = Inc(clusterStats, "UpstreamRequestTimeout")
              /\ held' = [held EXCEPT ![t] = Nil]
              /\ reason' = [reason EXCEPT ![t] = "ConnectionFailure"]
              /\ handedOut' = handedOut

\* connPool.getAvailableClient, the critical section NewStream opens with.
getAvailableClient(t) ==
    /\ pc[t] = "idle"
    /\ t = nCalls + 1
    /\ clientMux = "free"
    /\ nCalls' = nCalls + 1
    /\ UNCHANGED <<stream, requests, nResets, clientMux>>
    /\ IF Len(availableClients) = 0
       THEN IF MayCreateClient(totalClientCount, MaxConnections)
            THEN /\ totalClientCount' = totalClientCount + 1
                 /\ availableClients' = availableClients
                 /\ \E outcome \in ConnectOutcomes : newActiveClient(t, outcome)
            ELSE /\ hostStats' = PendingOverflowStats(hostStats)
                 /\ clusterStats' = PendingOverflowStats(clusterStats)
                 /\ held' = [held EXCEPT ![t] = Nil]
                 /\ reason' = [reason EXCEPT ![t] = "Overflow"]
                 /\ UNCHANGED <<availableClients, totalClientCount, closed,
                                closeWithActiveReq, nCreated, conn, connectErr,
                                handedOut>>
       ELSE LET c == availableClients[PopIndex(availableClients)] IN
            /\ availableClients' = PopRest(availableClients)
            /\ held' = [held EXCEPT ![t] = c]
            /\ reason' = [reason EXCEPT ![t] = ""]
            /\ handedOut' = handedOut \cup {c}
            /\ UNCHANGED <<totalClientCount, closed, closeWithActiveReq,
                           nCreated, conn, connectErr, hostStats, clusterStats>>
    /\ destroyLog' = Forget(destroyLog, held'[t])

\* ------------------------------------------------- connPool.NewStream
\* Variant: the return of line 77 is missing.
NewStreamNotifications_noReturn(c, r, admit) ==
    (IF c = Nil THEN <<Failure(r)>> ELSE <<>>)
    \o (IF ~admit THEN <<Failure("Overflow")>> ELSE <<Ready(c)>>)

\* What NewStream tells its listener, in order: OnFailure(reason) and return
\* when no client was obtained, OnFailure(Overflow) when the requests
\* resource cannot admit, OnReady otherwise.
NewStreamNotifications(c, r, admit) ==
    IF c = Nil THEN <<Failure(r)>>
    ELSE IF ~admit THEN <<Failure("Overflow")>>
    ELSE <<Ready(c)>>

\* Lines 85-89: the counters of an admitted request.
AdmitStats(stats) == Inc(Inc(stats, "UpstreamRequestTotal"), "UpstreamRequestActive")

\* Lines 82-83: the counters of a request that is not admitted.
RejectStats(stats) == Inc(stats, "UpstreamRequestPendingOverflow")

\* Lines 73-78: getAvailableClient and, when it returns no client, the
\* failure told to the listener and the return.  That tail touches nothing
\* but the caller's listener, so it is taken in the same step.
NewStreamBegin(t) ==
    /\ getAvailableClient(t)
    /\ pc' = [pc EXCEPT ![t] = IF held'[t] = Nil THEN "done" ELSE "got"]
    /\ notified' = [notified EXCEPT
           ![t] = IF held'[t] = Nil
                  THEN NewStreamNotifications(Nil, reason'[t], FALSE)
                  ELSE <<>>]
    /\ UNCHANGED notPool

\* Lines 80-95, with a client in hand and clientMux released.
NewStreamAdmit(t) ==
    /\ pc[t] = "got"
    /\ pc' = [pc EXCEPT ![t] = "done"]
    /\ \E admit \in {CanCreate(requests + o) : o \in 0..(MaxRequests - requests)} :
       LET c == held[t] IN
       /\ notified' = [notified EXCEPT
              ![t] = @ \o NewStreamNotifications(c, reason[t], admit)]
       /\ IF ~admit
          THEN /\ hostStats' = RejectStats(hostStats)
               /\ clusterStats' = RejectStats(clusterStats)
               /\ UNCHANGED <<requests, stream>>
          ELSE /\ hostStats' = AdmitStats(hostStats)
               /\ clusterStats' = AdmitStats(clusterStats)
               /\ requests' = requests + 1
               /\ stream' = [stream EXCEPT ![c] = "active"]
    /\ UNCHANGED <<availableClients, totalClientCount, closed,
                   closeWithActiveReq, nCreated, conn, connectErr, handedOut,
                   held, reason, nCalls, destroyLog, nResets, clientMux>>
    /\ UNCHANGED notPool

\* -------------------------------------------- connPool.onConnectionEvent
\* Variant: the closed client is left in the list.
RemoveClient_keep(list, c) == list

\* Variant: the last client of the list is taken out, whichever it is.
RemoveClient_last(list, c) ==
    IF c \in Range(list) THEN SubSeq(list, 1, Len(list) - 1) ELSE list

\* Lines 151-157: the list without the first occurrence of the client.

RemoveClient(list, c) ==
    IF c \in Range(list)
    THEN LET i == CHOOSE k \in 1..Len(list) :
                      /\ list[k] = c
                      /\ \A j \in 1..(k - 1) : list[j] # c
         IN SubSeq(list, 1, i - 1) \o SubSeq(list, i + 1, Len(list))
    ELSE list

\* Lines 135-143: the statistics of a close that follows a connection-scoped
\* reset.
CloseStats(stats, withActiveReq, event) ==
    IF withActiveReq /\ event = "LocalClose"
    THEN Inc(stats, "UpstreamConnectionLocalCloseWithActiveRequest")
    ELSE IF withActiveReq /\ event = "RemoteClose"
    THEN Inc(stats, "UpstreamConnectionRemoteCloseWithActiveRequest")
    ELSE stats

\* What a connection delivers to its listeners: one close event, any of
\* them while it is open, LocalClose once a local Close() has been started;
\* none before it exists, after a failed connect or after its close event.
Delivers(state, event) ==
    \/ state = "open"
    \/ state = "closing" /\ event = "LocalClose"

\* ------------------------------------------------------ connPool.Close
\* codecClient.Close() on an open connection starts its local close; the
\* close event follows.  The free list itself is not changed by Close.
CodecClose(state) == IF state = "open" THEN "closing" ELSE state

\* Lines 127-129: the clients Close calls codecClient.Close() on, given the
\* free list and the clients handed out.
ClosedByClose(list, out) == Range(list)

\* Close takes clientMux and walks the free list.  Each client is a
\* listener of its connection (line 233), and a connection whose Close()
\* tells its listeners before it returns runs onConnectionEvent inside the
\* walk: the statistics of lines 135-143, then the Lock of line 146 on the
\* mutex Close holds, which is never granted.  sync is the position of the
\* first client whose connection does so, 0 when every close event comes
\* after Close has returned.
Close(sync) ==
    /\ availableClients # <<>>
    /\ clientMux = "free"
    /\ sync > 0 => conn[availableClients[sync]] = "open"
    /\ LET walked == IF sync = 0
                     THEN ClosedByClose(availableClients, handedOut)
                     ELSE ClosedByClose(SubSeq(availableClients, 1, sync - 1),
                                        handedOut)
           last == IF sync = 0 THEN Nil ELSE availableClients[sync]
       IN /\ conn' = [c \in Clients |->
                        IF c = last THEN "closed"
                        ELSE IF c \in walked THEN CodecClose(conn[c])
                        ELSE conn[c]]
          /\ hostStats' = IF sync = 0 THEN hostStats
                          ELSE CloseStats(hostStats, closeWithActiveReq[last],
                                          "LocalClose")
          /\ clusterStats' = IF sync = 0 THEN clusterStats
                             ELSE CloseStats(clusterStats,
                                             closeWithActiveReq[last],
                                             "LocalClose")
    /\ conn' # conn
    /\ clientMux' = IF sync = 0 THEN "free" ELSE "Close"
    /\ UNCHANGED <<availableClients, totalClientCount, closed,
                   closeWithActiveReq, nCreated, connectErr, stream, handedOut,
                   requests, pc, held, reason, notified, nCalls, destroyLog,
                   nResets>>
    /\ UNCHANGED notPool

\* The close branch of onConnectionEvent (event.IsClose()).
onConnectionEvent(c, event) ==
    /\ Delivers(conn[c], event)
    /\ clientMux = "free"
    /\ conn' = [conn EXCEPT ![c] = "closed"]
    /\ hostStats' = CloseStats(hostStats, closeWithActiveReq[c], event)
    /\ clusterStats' = CloseStats(clusterStats, closeWithActiveReq[c], event)
    /\ totalClientCount' = totalClientCount - 1
    /\ availableClients' = RemoveClient(availableClients, c)
    /\ closed' = [closed EXCEPT ![c] = TRUE]
    /\ destroyLog' = Forget(destroyLog, c)
    /\ UNCHANGED <<closeWithActiveReq, nCreated, connectErr, stream, handedOut,
                   requests, pc, held, reason, notified, nCalls, nResets,
                   clientMux>>
    /\ UNCHANGED notPool

\* onConnectionEvent while clientMux is held for good: the statistics of
\* lines 135-143 are written and the handler waits at line 146.
onConnectionEventParked(c, event) ==
    /\ Delivers(conn[c], event)
    /\ clientMux # "free"
    /\ conn' = [conn EXCEPT ![c] = "closed"]
    /\ hostStats' = CloseStats(hostStats, closeWithActiveReq[c], event)
    /\ clusterStats' = CloseStats(clusterStats, closeWithActiveReq[c], event)
    /\ UNCHANGED <<availableClients, totalClientCount, closed,
                   closeWithActiveReq, nCreated, connectErr, stream, handedOut,
                   requests, pc, held, reason, notified, nCalls, destroyLog,
                   nResets, clientMux>>
    /\ UNCHANGED notPool

\* ---------------------------------------------- connPool.onStreamDestroy
\* Variant: the closed flag is not looked at.
ReturnsToPool_always(isClosed) == TRUE

\* Variant: no client goes back to the free list.
ReturnsToPool_never(isClosed) == FALSE

\* Line 178: the client goes back to the free list unless it is closed.

ReturnsToPool(isClosed) == ~isClosed

onStreamDestroy(c) ==
    /\ stream[c] \in {"active", "reset"}
    /\ clientMux = "free"
    /\ stream' = [stream EXCEPT ![c] = "none"]
    /\ hostStats' = Dec(hostStats, "UpstreamRequestActive")
    /\ clusterStats' = Dec(clusterStats, "UpstreamRequestActive")
    /\ requests' = requests - 1
    /\ availableClients' = IF ReturnsToPool(closed[c])
                           THEN Append(availableClients, c)
                           ELSE availableClients
    /\ handedOut' = handedOut \ {c}
    /\ destroyLog' = IF closed[c] THEN destroyLog ELSE Append(destroyLog, c)
    /\ UNCHANGED <<totalClientCount, closed, closeWithActiveReq, nCreated,
                   conn, connectErr, pc, held, reason, notified, nCalls,
                   nResets, clientMux>>
    /\ UNCHANGED notPool

\* onStreamDestroy while clientMux is held for good: lines 171-173 are done
\* and the handler waits at line 176, the client still handed out.
onStreamDestroyParked(c) ==
    /\ stream[c] \in {"active", "reset"}
    /\ clientMux # "free"
    /\ stream' = [stream EXCEPT ![c] = "none"]
    /\ hostStats' = Dec(hostStats, "UpstreamRequestActive")
    /\ clusterStats' = Dec(clusterStats, "UpstreamRequestActive")
    /\ requests' = requests - 1
    /\ UNCHANGED <<availableClients, totalClientCount, closed,
                   closeWithActiveReq, nCreated, conn, connectErr, handedOut,
                   pc, held, reason, notified, nCalls, destroyLog, nResets,
                   clientMux>>
    /\ UNCHANGED notPool

\* ------------------------------------------------ connPool.onStreamReset
\* Variant: every reset is counted as a failure eject.
ResetStat_eject(r) == "UpstreamRequestFailureEject"

\* The counter onStreamReset adds one to, "" when the reason has none.
ResetStat(r) ==
    IF r \in {"StreamConnectionTermination", "StreamConnectionFailed"}
    THEN "UpstreamRequestFailureEject"
    ELSE IF r = "StreamLocalReset" THEN "UpstreamRequestLocalReset"
    ELSE IF r = "StreamRemoteReset" THEN "UpstreamRequestRemoteReset"
    ELSE ""

onStreamReset(c, r) ==
    /\ stream[c] = "active"
    /\ nResets < MaxResets
    /\ nResets' = nResets + 1
    /\ stream' = [stream EXCEPT ![c] = "reset"]
    /\ hostStats' = IF ResetStat(r) = "" THEN hostStats
                    ELSE Inc(hostStats, ResetStat(r))
    /\ clusterStats' = IF ResetStat(r) = "" THEN clusterStats
                       ELSE Inc(clusterStats, ResetStat(r))
    /\ closeWithActiveReq' =
          IF r \in {"StreamConnectionTermination", "StreamConnectionFailed"}
          THEN [closeWithActiveReq EXCEPT ![c] = TRUE]
          ELSE closeWithActiveReq
    /\ UNCHANGED <<availableClients, totalClientCount, closed, nCreated, conn,
                   connectErr, handedOut, requests, pc, held, reason, notified,
                   nCalls, destroyLog, clientMux>>
    /\ UNCHANGED notPool

\* The pool over a transport that tells its listeners of a close from its
\* own loop, after Close() has returned.
Next ==
    \/ \E t \in Threads : NewStreamBegin(t)
    \/ \E t \in Threads : NewStreamAdmit(t)
    \/ Close(0)
    \/ \E c \in Clients, e \in CloseEvents : onConnectionEvent(c, e)
    \/ \E c \in Clients : onStreamDestroy(c)
    \/ \E c \in Clients, r \in ResetReasons : onStreamReset(c, r)

Spec == Init /\ [][Next]_vars

\* onConnectionEvent for a close event told to a client that has had its
\* close event already: the handler looks at neither client.closed nor the
\* free list before line 149, and runs as it did the first time.  The count
\* is followed down to MaxWrap below zero.
onConnectionEventAgain(c, event) ==
    /\ conn[c] = "closed"
    /\ closed[c]
    /\ clientMux = "free"
    /\ totalClientCount > -MaxWrap
    /\ hostStats' = CloseStats(hostStats, closeWithActiveReq[c], event)
    /\ clusterStats' = CloseStats(clusterStats, closeWithActiveReq[c], event)
    /\ totalClientCount' = totalClientCount - 1
    /\ availableClients' = RemoveClient(availableClients, c)
    /\ closed' = [closed EXCEPT ![c] = TRUE]
    /\ destroyLog' = Forget(destroyLog, c)
    /\ UNCHANGED <<conn, closeWithActiveReq, nCreated, connectErr, stream,
                   handedOut, requests, pc, held, reason, notified, nCalls,
                   nResets, clientMux>>
    /\ UNCHANGED notPool

\* The pool over a transport that may tell a client of more than one close
\* event.
NextRepeat ==
    \/ Next
    \/ \E c \in Clients, e \in CloseEvents : onConnectionEventAgain(c, e)

SpecRepeat == Init /\ [][NextRepeat]_vars

\* The pool over a transport that may also tell its listeners of a local
\* close inside Close().
NextSync ==
    \/ Next
    \/ \E sync \in 1..Len(availableClients) : Close(sync)
    \/ \E c \in Clients, e \in CloseEvents : onConnectionEventParked(c, e)
    \/ \E c \in Clients : onStreamDestroyParked(c)

SpecSync == Init /\ [][NextSync]_vars

\* ================================================ the pipe (part_003)
\* The connection events (types.ConnectionEvent) a stream connection is
\* told of.  IsClose() holds of the close events, ConnectFailure() of
\* ConnectTimeout and ConnectFailed.
ConnectionEvents == CloseEvents \cup ConnectOutcomes

\* Line 164: the events on which OnEvent closes the channel.
ClosesPipe(event) ==
    event \in CloseEvents \/ event \in {"ConnectTimeout", "ConnectFailed"}

\* What the transport has told its listeners, after one more event: the
\* close event itself once it is closed.
AfterEvent(state, event) ==
    IF event \in CloseEvents THEN event
    ELSE IF event = "Connected" THEN "connected"
    ELSE IF event = "ConnectFailed" THEN "failed"
    ELSE "timeout"

\* The events a connection tells its listeners: the outcome of Connect
\* first, if it is told at all, before any byte is read; then at most one
\* close event, none after a failed connect, LocalClose alone after a
\* connect timeout, whose connection the pool closes.
MayTell(state, event) ==
    \/ event \in ConnectOutcomes /\ state = "new" /\ nDispatched = 0
    \/ event \in CloseEvents /\ state \in {"new", "connected"}
    \/ event = "LocalClose" /\ state = "timeout"

Min(a, b) == IF a < b THEN a ELSE b

\* close(conn.bufChan) of line 165: closing a closed channel panics.
CloseBufChan ==
    IF bufChan = "closed"
    THEN /\ panicked' = panicked \cup {"OnEvent"}
         /\ bufChan' = bufChan
    ELSE /\ bufChan' = "closed"
         /\ panicked' = panicked

\* conn.Close(_, event) made by the codec: the connection tells the event
\* unless it has told a close event before.
connClose(event) ==
    IF MayTell(transport, event)
    THEN /\ transport' = AfterEvent(transport, event)
         /\ CloseBufChan
    ELSE UNCHANGED <<transport, bufChan, panicked>>

\* streamConnection.OnEvent, run by the task that tells the event.
OnEvent(event) ==
    /\ MayTell(transport, event)
    /\ transport' = AfterEvent(transport, event)
    /\ IF ClosesPipe(event) THEN CloseBufChan
       ELSE UNCHANGED <<bufChan, panicked>>
    /\ UNCHANGED <<dispatchPc, buffer, nDispatched, readPc, pLen, readOut>>
    /\ UNCHANGED notPipe

\* The transport's read loop calls Dispatch with the k bytes it has read;
\* line 124 finds the buffer non-empty.
DispatchCall(k) ==
    /\ dispatchPc = "idle"
    /\ transport \in {"new", "connected"}
    /\ nDispatched + k <= MaxBytes
    /\ buffer' = [i \in 1..k |-> nDispatched + i]
    /\ nDispatched' = nDispatched + k
    /\ dispatchPc' = "send"
    /\ UNCHANGED <<bufChan, transport, readPc, pLen, readOut, panicked>>
    /\ UNCHANGED notPipe

\* Line 125 meets line 137: the channel has no buffer, the send and the
\* receive are one step.
SendBuffer ==
    /\ dispatchPc = "send"
    /\ readPc = "recv"
    /\ bufChan = "open"
    /\ dispatchPc' = "wait"
    /\ readPc' = "copy"
    /\ UNCHANGED <<bufChan, transport, buffer, nDispatched, pLen, readOut,
                   panicked>>
    /\ UNCHANGED notPipe

\* Line 125 on a closed channel: the send panics.
DispatchSendClosed ==
    /\ dispatchPc = "send"
    /\ bufChan = "closed"
    /\ dispatchPc' = "dead"
    /\ panicked' = panicked \cup {"Dispatch"}
    /\ UNCHANGED <<bufChan, transport, buffer, nDispatched, readPc, pLen,
                   readOut>>
    /\ UNCHANGED notPipe

\* Line 147 meets line 126: the sentinel.
SendSentinel ==
    /\ readPc = "sentinel"
    /\ dispatchPc = "wait"
    /\ bufChan = "open"
    /\ readPc' = "parse"
    /\ dispatchPc' = "check"
    /\ UNCHANGED <<bufChan, transport, buffer, nDispatched, pLen, readOut,
                   panicked>>
    /\ UNCHANGED notPipe

\* Line 126 on a closed channel: the receive returns at once.
DispatchWaitClosed ==
    /\ dispatchPc = "wait"
    /\ bufChan = "closed"
    /\ dispatchPc' = "check"
    /\ UNCHANGED <<bufChan, transport, buffer, nDispatched, readPc, pLen,
                   readOut, panicked>>
    /\ UNCHANGED notPipe

\* Line 124, after a pass of the loop: buffer.Len() > 0.
DispatchCheck ==
    /\ dispatchPc = "check"
    /\ dispatchPc' = IF Len(buffer) > 0 THEN "send" ELSE "idle"
    /\ UNCHANGED <<bufChan, transport, buffer, nDispatched, readPc, pLen,
                   readOut, panicked>>
    /\ UNCHANGED notPipe

\* The parser (through its bufio.Reader) calls Read with a slice of n bytes.
ReadCall(n) ==
    /\ readPc = "parse"
    /\ readPc' = "recv"
    /\ pLen' = n
    /\ UNCHANGED <<bufChan, transport, dispatchPc, buffer, nDispatched,
                   readOut, panicked>>
    /\ UNCHANGED notPipe

\* Lines 137-143: the receive on a closed channel; Read returns
\* errConnClose, the decode fails and serve returns.
ReadClosed ==
    /\ readPc = "recv"
    /\ bufChan = "closed"
    /\ readPc' = "exited"
    /\ UNCHANGED <<bufChan, transport, dispatchPc, buffer, nDispatched, pLen,
                   readOut, panicked>>
    /\ UNCHANGED notPipe

\* Variant: the whole buffer is drained, whatever was copied.
Drained_all(data, n) == <<>>

\* Line 146: data.Drain(n).
Drained(data, n) == SubSeq(data, n + 1, Len(data))

\* Variant: the copy ignores len(p).
Copied_all(data, size) == data

\* Line 145: copy(p, data.Bytes()).
Copied(data, size) == SubSeq(data, 1, Min(size, Len(data)))

\* Lines 145-146.
ReadCopy ==
    /\ readPc = "copy"
    /\ readOut' = readOut \o Copied(buffer, pLen)
    /\ buffer' = Drained(buffer, Len(Copied(buffer, pLen)))
    /\ readPc' = "sentinel"
    /\ UNCHANGED <<bufChan, transport, dispatchPc, nDispatched, pLen,
                   panicked>>
    /\ UNCHANGED notPipe

\* Line 147 on a closed channel: the send panics; the parser task recovers
\* (lines 200-207, 298-305) and runs serve again.
ReadSentinelClosed ==
    /\ readPc = "sentinel"
    /\ bufChan = "closed"
    /\ readPc' = "parse"
    /\ panicked' = panicked \cup {"Read"}
    /\ UNCHANGED <<bufChan, transport, dispatchPc, buffer, nDispatched, pLen,
                   readOut>>
    /\ UNCHANGED notPipe

\* serve, lines 218-225 and 314-321: what was read does not decode; serve
\* returns and the connection is left as it is.
serveDecodeFailure ==
    /\ readPc = "parse"
    /\ readOut # <<>>
    /\ readPc' = "exited"
    /\ UNCHANGED <<bufChan, transport, dispatchPc, buffer, nDispatched, pLen,
                   readOut, panicked>>
    /\ UNCHANGED notPipe

\* clientStreamConnection.serve, lines 243-247: the response says close;
\* serve closes the connection, which tells OnEvent if it was not closed
\* before, and returns.
serveResetConn ==
    /\ readPc = "parse"
    /\ readOut # <<>>
    /\ readPc' = "exited"
    /\ connClose("LocalClose")
    /\ UNCHANGED <<dispatchPc, buffer, nDispatched, pLen, readOut>>
    /\ UNCHANGED notPipe

NextPipe ==
    \/ \E e \in ConnectionEvents : OnEvent(e)
    \/ \E k \in 1..MaxBytes : DispatchCall(k)
    \/ SendBuffer
    \/ DispatchSendClosed
    \/ SendSentinel
    \/ DispatchWaitClosed
    \/ DispatchCheck
    \/ \E n \in 1..MaxSlice : ReadCall(n)
    \/ ReadClosed
    \/ ReadCopy
    \/ ReadSentinelClosed
    \/ serveDecodeFailure
    \/ serveResetConn

SpecPipe == Init /\ [][NextPipe]_vars

\* ============================== parser task and streams (part_003)
\* What a message decodes to: with or without a close directive, with or
\* without a body, HTTP/1.1 or older.  i is its place on the connection.
Decodes(i) ==
    {[idx |-> i, close |-> c, hasData |-> d, http11 |-> h] :
        c \in BOOLEAN, d \in BOOLEAN, h \in BOOLEAN}

Event(name, endStream, i) == [ev |-> name, end |-> endStream, idx |-> i]

\* Variant: the headers always say end of stream.
Delivery_endAlways(m) ==
    IF m.hasData
    THEN <<Event("headers", TRUE, m.idx), Event("data", TRUE, m.idx)>>
    ELSE <<Event("headers", TRUE, m.idx)>>

\* handleResponse lines 512-520, handleRequest lines 656-665: what the
\* receiver is told of a message.
Delivery(m) ==
    IF m.hasData
    THEN <<Event("headers", FALSE, m.idx), Event("data", TRUE, m.idx)>>
    ELSE <<Event("headers", TRUE, m.idx)>>

\* stream.ResetStream, lines 389-396: what the listeners are told.
ResetTold(r) ==
    IF r # "StreamConnectionFailed" /\ r # "StreamConnectionTermination"
    THEN <<Event(r, FALSE, 0)>>
    ELSE <<>>

WasReset(s) == \E i \in 1..Len(observed[s]) : observed[s][i].ev \in ResetReasons
SawEnd(s) == \E i \in 1..Len(observed[s]) : observed[s][i].end

\* A stream the driver is done with: its message has been told to the end,
\* or it was reset.
Finished(s) == WasReset(s) \/ SawEnd(s)

\* A stream nothing will touch again: the driver is done with it, it is
\* not the current one, and a server stream has finished endStream.
Dead(s) ==
    /\ s \in 1..nStreams
    /\ s # current
    /\ IF side = "client" THEN Finished(s) ELSE ended[s] = "done"

\* The records of the streams, those of dead streams dropped.  They are
\* dropped when the next stream is made.
Kept(f, blank) == [s \in Streams |-> IF Dead(s) THEN blank ELSE f[s]]

newClientStreamConnection ==
    /\ side = "none"
    /\ side' = "client"
    /\ servePc' = "read"
    /\ UNCHANGED <<current, nStreams, readDisableCount, message, observed,
                   reqLog, nDecoded, ended, responseDone, written,
                   nReadDisable, bufChan, transport, nDispatched, panicked>>
    /\ UNCHANGED notServe

newServerStreamConnection ==
    /\ side = "none"
    /\ side' = "server"
    /\ servePc' = "read"
    /\ UNCHANGED <<current, nStreams, readDisableCount, message, observed,
                   reqLog, nDecoded, ended, responseDone, written,
                   nReadDisable, bufChan, transport, nDispatched, panicked>>
    /\ UNCHANGED notServe

\* The peer's next message reaches the pipe.  The peer of a client answers
\* the requests written to it, one message for each, in their order.
Arrives ==
    /\ side # "none"
    /\ transport \in {"new", "connected"}
    /\ side = "client" => nDispatched < Len(reqLog)
    /\ nDispatched < MaxStreams
    /\ nDispatched' = nDispatched + 1
    /\ UNCHANGED <<side, servePc, current, nStreams, readDisableCount,
                   message, observed, reqLog, nDecoded, ended, responseDone,
                   written, nReadDisable, bufChan, transport, panicked>>
    /\ UNCHANGED notServe

\* clientStreamConnection.serve, lines 230-248, for a response that
\* decodes.  A nil csc.stream panics at line 231; the task recovers once
\* and runs serve again (lines 200-207).
clientServe(m) ==
    /\ side = "client"
    /\ servePc = "read"
    /\ nDecoded < nDispatched
    /\ m \in Decodes(nDecoded + 1)
    /\ m.http11
    /\ nDecoded' = nDecoded + 1
    /\ IF current = Nil
       THEN /\ panicked' = panicked \cup {"serve"}
            /\ servePc' = IF "serve" \in panicked THEN "crashed" ELSE "read"
            /\ UNCHANGED <<message, observed, transport, bufChan>>
       ELSE LET s == current
                paused == readDisableCount[s] > 0
            IN /\ message' = [message EXCEPT ![s] = IF paused THEN m ELSE NoMsg]
               /\ observed' = [observed EXCEPT
                      ![s] = IF paused THEN @ ELSE @ \o Delivery(m)]
               /\ IF m.close
                  THEN /\ connClose("LocalClose")
                       /\ servePc' = "exited"
                  ELSE /\ UNCHANGED <<transport, bufChan, panicked>>
                       /\ servePc' = "read"
    /\ UNCHANGED <<side, current, nStreams, readDisableCount, reqLog, ended,
                   responseDone, written, nReadDisable, nDispatched>>
    /\ UNCHANGED notServe

\* serve, lines 218-225 and 314-321: the decode returns an error, because
\* the bytes of the next message do not decode or because Read returned
\* errConnClose.  The current stream, if any, is reset and serve returns.
serveError ==
    /\ side # "none"
    /\ servePc = "read"
    /\ \/ /\ nDecoded < nDispatched
          /\ nDecoded' = nDecoded + 1
       \/ /\ bufChan = "closed"
          /\ nDecoded' = nDecoded
    /\ observed' = IF current = Nil THEN observed
                   ELSE [observed EXCEPT
                           ![current] = @ \o ResetTold("StreamRemoteReset")]
    /\ servePc' = "exited"
    /\ UNCHANGED <<side, current, nStreams, readDisableCount, message, reqLog,
                   ended, responseDone, written, nReadDisable, bufChan,
                   transport, nDispatched, panicked>>
    /\ UNCHANGED notServe

\* serverStreamConnection.serve, lines 323-342, for a request that
\* decodes: a new stream becomes the current one, its request is handed to
\* the receiver (the counter of a new stream is 0), and serve waits.
serverServe(m) ==
    /\ side = "server"
    /\ servePc = "read"
    /\ nDecoded < nDispatched
    /\ nStreams < MaxStreams
    /\ m \in Decodes(nDecoded + 1)
    /\ nDecoded' = nDecoded + 1
    /\ nStreams' = nStreams + 1
    /\ current' = nStreams + 1
    /\ message' = [Kept(message, NoMsg) EXCEPT ![nStreams + 1] = m]
    /\ observed' = [Kept(observed, <<>>) EXCEPT ![nStreams + 1] = Delivery(m)]
    /\ written' = Kept(written, Unwritten)
    /\ readDisableCount' = Kept(readDisableCount, 0)
    /\ servePc' = "wait"
    /\ UNCHANGED <<side, reqLog, ended, responseDone, nReadDisable, bufChan,
                   transport, nDispatched, panicked>>
    /\ UNCHANGED notServe

\* Variant: the receive does not wait for a value.
Signalled_always(s) == TRUE

\* responseDoneChan of stream s holds a value: a receive can take it.
Signalled(s) == s \in responseDone

\* Line 345: <-s.responseDoneChan, s the stream serve has made last.
serveDone ==
    /\ side = "server"
    /\ servePc = "wait"
    /\ Signalled(nStreams)
    /\ responseDone' = responseDone \ {nStreams}
    /\ servePc' = "read"
    /\ UNCHANGED <<side, current, nStreams, readDisableCount, message,
                   observed, reqLog, nDecoded, ended, written, nReadDisable,
                   bufChan, transport, nDispatched, panicked>>
    /\ UNCHANGED notServe

\* clientStreamConnection.NewStream.  The pool gives a connected client to
\* one stream at a time: the stream before has been told its response or
\* was reset.
NewStream ==
    /\ side = "client"
    /\ transport = "connected"
    /\ nStreams < MaxStreams
    /\ IF current = Nil THEN TRUE ELSE Finished(current)
    /\ nStreams' = nStreams + 1
    /\ current' = nStreams + 1
    /\ message' = [s \in Streams |-> IF s = current THEN NoMsg
                                      ELSE Kept(message, NoMsg)[s]]
    /\ observed' = [s \in Streams |-> IF s = current THEN <<>>
                                       ELSE Kept(observed, <<>>)[s]]
    /\ readDisableCount' = [s \in Streams |-> IF s = current THEN 0
                                               ELSE Kept(readDisableCount, 0)[s]]
    /\ UNCHANGED <<side, servePc, reqLog, nDecoded, ended, responseDone,
                   written, nReadDisable, bufChan, transport, nDispatched,
                   panicked>>
    /\ UNCHANGED notServe

\* clientStream.endStream and doSend: the request of stream s, the stream
\* the driver works on, is written.
clientDoSend(s) ==
    /\ side = "client"
    /\ s = current
    /\ s \notin Range(reqLog)
    /\ ~Finished(s)
    /\ reqLog' = Append(reqLog, s)
    /\ UNCHANGED <<side, servePc, current, nStreams, readDisableCount,
                   message, observed, nDecoded, ended, responseDone, written,
                   nReadDisable, bufChan, transport, nDispatched, panicked>>
    /\ UNCHANGED notServe

\* A stream the driver still works on.  The driver of a client stream is
\* done with it before NewStream makes the next one.
InUse(s) ==
    /\ s \in 1..nStreams
    /\ ~WasReset(s)
    /\ IF side = "client" THEN s = current /\ ~SawEnd(s) ELSE ended[s] = "no"

\* Variant: the request of a server stream is forgotten once it is told,
\* as the response of a client stream is.
Handled_forget(sd, m) == NoMsg

\* s.response after handleResponse (lines 523-524: nil), s.request after
\* handleRequest (left as it is).
Handled(sd, m) == IF sd = "client" THEN NoMsg ELSE m

\* clientStream.ReadDisable, serverStream.ReadDisable.
ReadDisable(s, disable) ==
    /\ side # "none"
    /\ InUse(s)
    /\ nReadDisable < MaxReadDisable
    /\ nReadDisable' = nReadDisable + 1
    /\ LET newCount == readDisableCount[s] + (IF disable THEN 1 ELSE -1)
       IN /\ readDisableCount' = [readDisableCount EXCEPT ![s] = newCount]
          /\ IF ~disable /\ newCount <= 0 /\ message[s] # NoMsg
             THEN /\ observed' = [observed EXCEPT
                         ![s] = @ \o Delivery(message[s])]
                  /\ message' = [message EXCEPT ![s] = Handled(side, @)]
             ELSE UNCHANGED <<observed, message>>
    /\ UNCHANGED <<side, servePc, current, nStreams, reqLog, nDecoded, ended,
                   responseDone, written, bufChan, transport, nDispatched,
                   panicked>>
    /\ UNCHANGED notServe

\* The reasons the driver resets a stream for: its own, and the end of the
\* connection, of which the listeners are not told.
DriverResets == {"StreamLocalReset", "StreamConnectionTermination"}

\* stream.ResetStream called by the driver.
ResetStream(s, r) ==
    /\ side # "none"
    /\ InUse(s)
    /\ observed' = [observed EXCEPT ![s] = @ \o ResetTold(r)]
    /\ UNCHANGED <<side, servePc, current, nStreams, readDisableCount,
                   message, reqLog, nDecoded, ended, responseDone, written,
                   nReadDisable, bufChan, transport, nDispatched, panicked>>
    /\ UNCHANGED notServe

\* The Connection header a response may carry when endStream begins
\* (AppendHeaders copies the driver's headers): none, or one with a value.
ConnectionHeaders == {"", "close"}

\* Variant: keep-alive is written for every request without close.
ResponseConnection_keepAlive(req, hdr) ==
    IF req.close THEN "close" ELSE "keep-alive"

\* serverStream.endStream, lines 591-598: the Connection header of the
\* response.
ResponseConnection(req, hdr) ==
    IF req.close THEN "close"
    ELSE IF ~req.http11 THEN "keep-alive"
    ELSE hdr

\* Variant: the connection is closed after every response.
ResetConn_always(req) == TRUE

\* Lines 589-593: resetConn.
ResetConn(req) == req.close

\* serverStream.endStream up to line 602: the header, doSend, and the value
\* put into responseDoneChan, which has room for it.
endStream(s, hdr) ==
    /\ side = "server"
    /\ s \in 1..nStreams
    /\ ended[s] = "no"
    /\ written' = [written EXCEPT
           ![s] = [given |-> hdr, sent |-> ResponseConnection(message[s], hdr)]]
    /\ responseDone' = responseDone \cup {s}
    /\ ended' = [ended EXCEPT ![s] = "signalled"]
    /\ UNCHANGED <<side, servePc, current, nStreams, readDisableCount,
                   message, observed, reqLog, nDecoded, nReadDisable, bufChan,
                   transport, nDispatched, panicked>>
    /\ UNCHANGED notServe

\* serverStream.endStream from line 604: the close, then the clean-up.
endStreamFinish(s) ==
    /\ side = "server"
    /\ s \in 1..nStreams
    /\ ended[s] = "signalled"
    /\ IF ResetConn(message[s]) THEN connClose("LocalClose")
       ELSE UNCHANGED <<transport, bufChan, panicked>>
    /\ current' = Nil
    /\ ended' = [ended EXCEPT ![s] = "done"]
    /\ UNCHANGED <<side, servePc, nStreams, readDisableCount, message,
                   observed, reqLog, nDecoded, responseDone, written,
                   nReadDisable, nDispatched>>
    /\ UNCHANGED notServe

\* What happens on a stream connection whichever side it is.
NextConn ==
    \/ Arrives
    \/ serveError

\* A client stream connection and the driver of its streams.  The
\* connection tells the outcome of Connect and the close by the peer.
NextClient ==
    \/ newClientStreamConnection
    \/ side # "none" /\ \E e \in ConnectOutcomes \cup {"RemoteClose"} : OnEvent(e)
    \/ NextConn
    \/ \E m \in Decodes(nDecoded + 1) : clientServe(m)
    \/ NewStream
    \/ \E s \in Streams : clientDoSend(s)
    \/ \E s \in Streams, d \in BOOLEAN : ReadDisable(s, d)
    \/ \E s \in Streams, r \in DriverResets : ResetStream(s, r)

SpecClient == Init /\ [][NextClient]_vars

\* The bytes of a response no request was written for reach the parser:
\* what the peer sends is not bound to what was asked (Dispatch, lines
\* 123-128, passes on whatever the connection read).
ArrivesUnsolicited ==
    /\ side = "client"
    /\ transport \in {"new", "connected"}
    /\ nDispatched >= Len(reqLog)
    /\ nDispatched < MaxStreams
    /\ nDispatched' = nDispatched + 1
    /\ UNCHANGED <<side, servePc, current, nStreams, readDisableCount,
                   message, observed, reqLog, nDecoded, ended, responseDone,
                   written, nReadDisable, bufChan, transport, panicked>>
    /\ UNCHANGED notServe

\* A client stream connection whose peer may also send responses that no
\* request asked for.
NextUnsolicited ==
    \/ NextClient
    \/ ArrivesUnsolicited

SpecUnsolicited == Init /\ [][NextUnsolicited]_vars

\* A server stream connection whose driver answers every request: it
\* does not pause the delivery and resets no stream.  The connection was
\* accepted, there is no Connect; it tells the close by the peer.
NextRespond ==
    \/ newServerStreamConnection
    \/ side # "none" /\ OnEvent("RemoteClose")
    \/ NextConn
    \/ \E m \in Decodes(nDecoded + 1) : serverServe(m)
    \/ serveDone
    \/ \E s \in Streams, h \in ConnectionHeaders : endStream(s, h)
    \/ \E s \in Streams : endStreamFinish(s)

SpecRespond == Init /\ [][NextRespond]_vars

\* A server stream connection whose driver also pauses and resumes the
\* delivery and resets streams.
NextServer ==
    \/ NextRespond
    \/ \E s \in Streams, d \in BOOLEAN : ReadDisable(s, d)
    \/ \E s \in Streams, r \in DriverResets : ResetStream(s, r)

SpecServer == Init /\ [][NextServer]_vars

\* A stream connection of either side: the client with its driver, or the
\* server whose driver answers every request.
NextCodec ==
    \/ side # "server" /\ NextClient
    \/ side # "client" /\ NextRespond

SpecCodec == Init /\ [][NextCodec]_vars

\* ====================================== protocol detection (part_003)
\* Lines 51-52.
minMethodLengh == 3
maxMethodLengh == 7

\* Lines 53-62: the keys of httpMethod, a byte string being the sequence of
\* its bytes.
httpMethod ==
    { <<"O", "P", "T", "I", "O", "N", "S">>,
      <<"G", "E", "T">>,
      <<"H", "E", "A", "D">>,
      <<"P", "O", "S", "T">>,
      <<"P", "U", "T">>,
      <<"D", "E", "L", "E", "T", "E">>,
      <<"T", "R", "A", "C", "E">>,
      <<"C", "O", "N", "N", "E", "C", "T">> }

\* Variant: whatever matches no method is refused at once.
NoMethod_failed(size) == "FAILED"

\* Lines 99-103: no prefix is a method.
NoMethod(size) == IF size < maxMethodLengh THEN "EAGAIN" ELSE "FAILED"

\* streamConnFactory.ProtocolMatch, lines 84-104; "nil" is the match.
ProtocolMatch(bytes) ==
    IF Len(bytes) < minMethodLengh THEN "EAGAIN"
    ELSE LET size == IF Len(bytes) > maxMethodLengh THEN maxMethodLengh
                     ELSE Len(bytes)
         IN IF \E i \in minMethodLengh..size : SubSeq(bytes, 1, i) \in httpMethod
            THEN "nil"
            ELSE NoMethod(size)

\* The bytes a connection may begin with: the bytes of the methods, each
\* where it carries on the beginning of a method, and bytes that begin no
\* method, anywhere.
Other == {" ", "X", "Y", "Z", "!"}
MethodBytes == UNION {Range(w) : w \in httpMethod}
BeginsMethod(bytes) ==
    \E w \in httpMethod :
        Len(bytes) <= Len(w) /\ SubSeq(w, 1, Len(bytes)) = bytes

\* One more byte of the connection is read and the detector is asked about
\* all that was read.
Detect(b) ==
    /\ Len(magic) < MaxMagic
    /\ b \in Other \/ BeginsMethod(Append(magic, b))
    /\ magic' = Append(magic, b)
    /\ matched' = ProtocolMatch(magic')
    /\ UNCHANGED notDetect

NextDetect == \E b \in Other \cup MethodBytes : Detect(b)

SpecDetect == Init /\ [][NextDetect]_vars

\* ================================================ keep-alive controller
\* The state of the controller: Idle, Probing or Stopped.
State ==
    IF stop THEN "Stopped" ELSE IF pending # {} THEN "Probing" ELSE "Idle"

Status(id, status) == [id |-> id, status |-> status]

\* StartIdleTimeout: the watcher of idle probes is started.
StartIdleTimeout ==
    /\ ~idleWatch
    /\ idleWatch' = TRUE
    /\ UNCHANGED <<stop, codec, pending, timers, inflight, timeoutCount,
                   idleCount, sent, sendCalls, statuses>>
    /\ UNCHANGED notKeepAlive

\* An application stream is made on the codec: the idle counter starts
\* again.
ApplicationStream ==
    /\ codec = "open"
    /\ idleCount > 0
    /\ idleCount' = 0
    /\ UNCHANGED <<stop, codec, pending, timers, inflight, timeoutCount,
                   idleWatch, sent, sendCalls, statuses>>
    /\ UNCHANGED notKeepAlive

\* Variant: the watcher lets the run pass its maximum by one.
IdleFree_late(count) == idleWatch /\ count > MaxIdleCount

\* The watcher finds the run of probes without an application stream at
\* its maximum.
IdleFree(count) == idleWatch /\ count >= MaxIdleCount

\* SendKeepAlive.  Stopped: nothing.  Otherwise the probe counts as one
\* more idle probe; at the maximum the codec is closed and the controller
\* stops; below it the probe gets a fresh id, an entry in the pending map
\* and a timer, and the heartbeat is sent.
SendKeepAlive ==
    /\ sendCalls < MaxProbes
    /\ sendCalls' = sendCalls + 1
    /\ IF stop
       THEN UNCHANGED <<stop, codec, pending, timers, inflight, idleCount,
                        sent>>
       ELSE /\ idleCount' = idleCount + 1
            /\ IF IdleFree(idleCount + 1)
               THEN /\ codec' = "closed"
                    /\ stop' = TRUE
                    /\ UNCHANGED <<pending, timers, inflight, sent>>
               ELSE /\ sent' = sent + 1
                    /\ pending' = pending \cup {sent + 1}
                    /\ timers' = timers \cup {sent + 1}
                    /\ inflight' = inflight \cup {sent + 1}
                    /\ UNCHANGED <<stop, codec>>
    /\ UNCHANGED <<timeoutCount, idleWatch, statuses>>
    /\ UNCHANGED notKeepAlive

\* Variant: a success leaves the count of timeouts as it is.
AfterSuccess_keep(count) == count

\* timeoutCount after a successful probe.
AfterSuccess(count) == 0

\* Variant: a handler acts without looking for the entry in the pending map.
Wins_unchecked(id) == ~stop

\* Under the mutex a handler finds the probe's entry still in the pending
\* map of a controller that is not stopped: it wins the race for the probe.
Wins(id) == ~stop /\ id \in pending

\* The response to probe id comes.  If the entry is still pending and the
\* controller is not stopped: the entry is removed, the timer is cancelled
\* unless it has fired already and waits for the mutex, the count is reset
\* and the callbacks are told Success.  Otherwise nothing.
HandleSuccess(id, cancelled) ==
    /\ id \in inflight
    /\ inflight' = inflight \ {id}
    /\ IF Wins(id)
       THEN /\ pending' = pending \ {id}
            /\ timers' = IF cancelled THEN timers \ {id} ELSE timers
            /\ timeoutCount' = AfterSuccess(timeoutCount)
            /\ statuses' = Append(statuses, Status(id, "Success"))
       ELSE /\ cancelled
            /\ UNCHANGED <<pending, timers, timeoutCount, statuses>>
    /\ UNCHANGED <<stop, codec, idleWatch, idleCount, sent, sendCalls>>
    /\ UNCHANGED notKeepAlive

\* Variant: the codec is closed when the count has passed the threshold.
Reached_gt(count) == count > Threshold

\* timeoutCount >= threshold.
Reached(count) == count >= Threshold

\* The timer of probe id fires.  If the entry is still pending and the
\* controller is not stopped: the entry is removed, the count goes up, the
\* callbacks are told Timeout, and at the threshold the codec is closed
\* and the controller stops.  Otherwise nothing.
HandleTimeout(id) ==
    /\ id \in timers
    /\ timers' = timers \ {id}
    /\ IF Wins(id)
       THEN /\ pending' = pending \ {id}
            /\ timeoutCount' = timeoutCount + 1
            /\ statuses' = Append(statuses, Status(id, "Timeout"))
            /\ IF Reached(timeoutCount + 1)
               THEN codec' = "closed" /\ stop' = TRUE
               ELSE UNCHANGED <<codec, stop>>
       ELSE UNCHANGED <<pending, timeoutCount, statuses, codec, stop>>
    /\ UNCHANGED <<inflight, idleWatch, idleCount, sent, sendCalls>>
    /\ UNCHANGED notKeepAlive

NextKeepAlive ==
    \/ StartIdleTimeout
    \/ ApplicationStream
    \/ SendKeepAlive
    \/ \E id \in 1..MaxProbes, cancelled \in BOOLEAN : HandleSuccess(id, cancelled)
    \/ \E id \in 1..MaxProbes : HandleTimeout(id)

SpecKeepAlive == Init /\ [][NextKeepAlive]_vars

\* ================================================ the metrics handoff
\* makesTransferData and readTransferData of package metrics, with the
\* go-metrics objects they read and write.  A metrics set is registered
\* under its type and labels and holds its metrics under their keys.
metricsCounter == "counter"
metricsGauge == "gauge"
metricsHistogram == "histogram"

\* The sets of metrics a process registers, in the order GetAll() gives
\* them, and the keys of a set, in the order Each() gives them.
Registrations ==
    <<[Type |-> "typ1", Labels |-> {<<"labelKey1", "labekVal1">>}],
      [Type |-> "typ2", Labels |-> {}]>>
MetricsKeys == <<"counter.0", "gauge.0", "histogram">>
MetricsValues == {1, 2}

\* The map f with v put under k.
Put(f, k, v) == [x \in DOMAIN f \cup {k} |-> IF x = k THEN v ELSE f[x]]

\* A counter, a gauge and a histogram as the registry makes them.
NewCounter == [kind |-> metricsCounter, count |-> 0]
NewGauge == [kind |-> metricsGauge, value |-> 0]
NewHistogram == [kind |-> metricsHistogram, count |-> 0, values |-> <<>>]

\* s.Counter(key), s.Gauge(key), s.Histogram(key): the metric registered
\* under the key, made if there is none.
GetOrRegister(set, key, fresh) == IF key \in DOMAIN set THEN set[key] ELSE fresh

\* Variant: the sample keeps every value it is given.
SampleUpdate_unbounded(h, v) ==
    {[h EXCEPT !.count = @ + 1, !.values = Append(@, v)]}

\* Histogram.Update(v): the sample counts the value; it keeps it while the
\* reservoir has room, and afterwards puts it in the place of a value
\* drawn at random, or drops it.  The outcomes.
SampleUpdate(h, v) ==
    IF Len(h.values) < ReservoirSize
    THEN {[h EXCEPT !.count = @ + 1, !.values = Append(@, v)]}
    ELSE {[h EXCEPT !.count = @ + 1,
                    !.values = IF r < Len(@) THEN [@ EXCEPT ![r + 1] = v] ELSE @] :
            r \in 0..h.count}

\* NewMetrics(typ, labels) for a set not yet registered.
NewMetrics(id) ==
    /\ handoff \in {"source", "reset"}
    /\ nUpdates < MaxUpdates
    /\ id \notin DOMAIN defaultStore
    /\ defaultStore' = Put(defaultStore, id, <<>>)
    /\ nUpdates' = nUpdates + 1
    /\ UNCHANGED <<body, source, handoff>>
    /\ UNCHANGED notTransfer

\* The store with metric m under the key of the set id.
Stored(store, id, key, m) == Put(store, id, Put(store[id], key, m))

\* s.Counter(key).Inc(n)
CounterInc(id, key, n) ==
    /\ handoff \in {"source", "reset"}
    /\ nUpdates < MaxUpdates
    /\ id \in DOMAIN defaultStore
    /\ LET c == GetOrRegister(defaultStore[id], key, NewCounter)
       IN defaultStore' = Stored(defaultStore, id, key, [c EXCEPT !.count = @ + n])
    /\ nUpdates' = nUpdates + 1
    /\ UNCHANGED <<body, source, handoff>>
    /\ UNCHANGED notTransfer

\* s.Gauge(key).Update(v)
GaugeUpdate(id, key, v) ==
    /\ handoff \in {"source", "reset"}
    /\ nUpdates < MaxUpdates
    /\ id \in DOMAIN defaultStore
    /\ LET g == GetOrRegister(defaultStore[id], key, NewGauge)
       IN defaultStore' = Stored(defaultStore, id, key, [g EXCEPT !.value = v])
    /\ nUpdates' = nUpdates + 1
    /\ UNCHANGED <<body, source, handoff>>
    /\ UNCHANGED notTransfer

\* s.Histogram(key).Update(v)
HistogramUpdate(id, key, v) ==
    /\ handoff \in {"source", "reset"}
    /\ nUpdates < MaxUpdates
    /\ id \in DOMAIN defaultStore
    /\ \E h \in SampleUpdate(GetOrRegister(defaultStore[id], key, NewHistogram), v) :
          defaultStore' = Stored(defaultStore, id, key, h)
    /\ nUpdates' = nUpdates + 1
    /\ UNCHANGED <<body, source, handoff>>
    /\ UNCHANGED notTransfer

\* The TransferData of one metric: its kind, its key, and the count of a
\* counter, the value of a gauge, or the values the sample of a histogram
\* holds (h.Sample().Values()).
TransferData(key, m) ==
    [MetricsType |-> m.kind,
     MetricsKey |-> key,
     MetricsValues |-> IF m.kind = metricsCounter THEN <<m.count>>
                       ELSE IF m.kind = metricsGauge THEN <<m.value>>
                       ELSE m.values]

\* The []TransferStats of a store: one entry per registered set, with the
\* TransferData of each of its metrics.
TransferStats(store) ==
    LET ids == SelectSeq(Registrations, LAMBDA id : id \in DOMAIN store)
        Data(set) ==
            LET keys == SelectSeq(MetricsKeys, LAMBDA k : k \in DOMAIN set)
            IN [j \in 1..Len(keys) |-> TransferData(keys[j], set[keys[j]])]
    IN [i \in 1..Len(ids) |->
          [Type |-> ids[i].Type, Labels |-> ids[i].Labels,
           Data |-> Data(store[ids[i]])]]

\* gob sends a field of a struct unless it holds the zero value of its
\* type, and the decoder leaves a field that was not sent at zero; the
\* elements of a slice are all sent.
Sent(x, zero) == IF x = zero THEN [sent |-> FALSE] ELSE [sent |-> TRUE, value |-> x]
Received(f, zero) == IF f.sent THEN f.value ELSE zero

\* gob.NewEncoder(&buf).Encode(transfers)
Encode(transfers) ==
    [i \in 1..Len(transfers) |->
       [Type |-> Sent(transfers[i].Type, ""),
        Labels |-> Sent(transfers[i].Labels, {}),
        Data |-> Sent([j \in 1..Len(transfers[i].Data) |->
                         LET d == transfers[i].Data[j]
                         IN [MetricsType |-> Sent(d.MetricsType, ""),
                             MetricsKey |-> Sent(d.MetricsKey, ""),
                             MetricsValues |-> Sent(d.MetricsValues, <<>>)]],
                      <<>>)]]

\* gob.NewDecoder(buf).Decode(&transfers)
Decode(bytes) ==
    [i \in 1..Len(bytes) |->
       [Type |-> Received(bytes[i].Type, ""),
        Labels |-> Received(bytes[i].Labels, {}),
        Data |-> LET data == Received(bytes[i].Data, <<>>)
                 IN [j \in 1..Len(data) |->
                       [MetricsType |-> Received(data[j].MetricsType, ""),
                        MetricsKey |-> Received(data[j].MetricsKey, ""),
                        MetricsValues |-> Received(data[j].MetricsValues, <<>>)]]]]

\* makesTransferData: every registered metric goes into the transfer, gob
\* encoded.
makesTransferData ==
    /\ handoff = "source"
    /\ body' = Encode(TransferStats(defaultStore))
    /\ source' = defaultStore
    /\ handoff' = "made"
    /\ UNCHANGED <<defaultStore, nUpdates>>
    /\ UNCHANGED notTransfer

\* ResetAll(): the store of the process that takes over starts empty.
ResetAll ==
    /\ handoff = "made"
    /\ defaultStore' = <<>>
    /\ handoff' = "reset"
    /\ UNCHANGED <<body, source, nUpdates>>
    /\ UNCHANGED notTransfer

\* The histogram after Update of each of the values in turn.  The outcomes.
RECURSIVE Updated(_, _)
Updated(h, values) ==
    IF values = <<>> THEN {h}
    ELSE UNION {Updated(h2, Tail(values)) : h2 \in SampleUpdate(h, Head(values))}

\* The switch of readTransferData on one TransferData d of a set: the
\* counter goes up by the count, the gauge is set to the value, the
\* histogram is given the values one by one.  The outcomes.
Applied(set, d) ==
    IF d.MetricsType = metricsCounter
    THEN {[c EXCEPT !.count = @ + d.MetricsValues[1]] :
            c \in {GetOrRegister(set, d.MetricsKey, NewCounter)}}
    ELSE IF d.MetricsType = metricsGauge
    THEN {[g EXCEPT !.value = d.MetricsValues[1]] :
            g \in {GetOrRegister(set, d.MetricsKey, NewGauge)}}
    ELSE Updated(GetOrRegister(set, d.MetricsKey, NewHistogram), d.MetricsValues)

\* The inner loop of readTransferData over the Data of one transfer.
RECURSIVE readData(_, _, _)
readData(store, id, data) ==
    IF data = <<>> THEN {store}
    ELSE UNION {readData(Stored(store, id, Head(data).MetricsKey, m), id, Tail(data)) :
                  m \in Applied(store[id], Head(data))}

\* The outer loop of readTransferData: NewMetrics(transfer.Type,
\* transfer.Labels), then the Data of the transfer.
RECURSIVE readTransfers(_, _)
readTransfers(store, transfers) ==
    IF transfers = <<>> THEN {store}
    ELSE LET id == [Type |-> Head(transfers).Type, Labels |-> Head(transfers).Labels]
             made == IF id \in DOMAIN store THEN store ELSE Put(store, id, <<>>)
         IN UNION {readTransfers(s, Tail(transfers)) :
                     s \in readData(made, id, Head(transfers).Data)}

\* readTransferData(b) in the process that takes over.
readTransferData ==
    /\ handoff = "reset"
    /\ \E store \in readTransfers(defaultStore, Decode(body)) :
          defaultStore' = store
    /\ handoff' = IF defaultStore = <<>> THEN "read" ELSE "merged"
    /\ UNCHANGED <<body, source, nUpdates>>
    /\ UNCHANGED notTransfer

NextTransfer ==
    \/ \E i \in 1..Len(Registrations) : NewMetrics(Registrations[i])
    \/ \E i \in 1..Len(Registrations), n \in MetricsValues :
          CounterInc(Registrations[i], MetricsKeys[1], n)
    \/ \E i \in 1..Len(Registrations), v \in MetricsValues :
          GaugeUpdate(Registrations[i], MetricsKeys[2], v)
    \/ \E i \in 1..Len(Registrations), v \in MetricsValues :
          HistogramUpdate(Registrations[i], MetricsKeys[3], v)
    \/ makesTransferData
    \/ ResetAll
    \/ readTransferData

SpecTransfer == Init /\ [][NextTransfer]_vars

\* ================================== the listeners of a stream (part_003)
Listeners == 1..NumListeners

\* stream.AddEventListener, lines 370-372: the listener is appended, with
\* no look at what the list holds.
AddEventListener(cb) ==
    /\ Len(streamCbs) < MaxListeners
    /\ streamCbs' = Append(streamCbs, cb)
    /\ UNCHANGED notListener

\* Lines 376-382: the index the loop stops at, 0 when it runs to the end
\* (the code counts from 0 and holds -1 for that).  The loop variable has
\* the name of the parameter and hides it, so that the test of line 378
\* compares each entry with itself.
FoundIndex(cbs, cb) ==
    IF \E i \in 1..Len(cbs) : cbs[i] = cbs[i]
    THEN CHOOSE i \in 1..Len(cbs) :
             /\ cbs[i] = cbs[i]
             /\ \A j \in 1..(i - 1) : cbs[j] # cbs[j]
    ELSE 0

\* Lines 384-386: the list without the entry at the index.
CutAt(cbs, i) == SubSeq(cbs, 1, i - 1) \o SubSeq(cbs, i + 1, Len(cbs))

\* stream.RemoveEventListener, lines 374-387.
RemoveEventListener(cb) ==
    /\ LET cbIdx == FoundIndex(streamCbs, cb)
       IN streamCbs' = IF cbIdx > 0 THEN CutAt(streamCbs, cbIdx) ELSE streamCbs
    /\ UNCHANGED notListener

NextListener ==
    \/ \E cb \in Listeners : AddEventListener(cb)
    \/ \E cb \in Listeners : RemoveEventListener(cb)

SpecListener == Init /\ [][NextListener]_vars

\* ============================ the cluster list (pkg/config/configmanager.go)
ClusterNames == 1..NumClusterNames

\* v2.Cluster: the name and the rest of the config.
ClusterConfigs ==
    [Name : ClusterNames, config : {1, 2}]

\* The arguments of a call: no element of S, one, or two.
Batches(S) == {<<>>} \cup {<<a>> : a \in S} \cup {<<a, b>> : a, b \in S}

\* Variant: no entry is ever found.
FirstNamed_none(list, name) == 0

\* The inner loops of lines 73-79 and 98-104: the index of the first entry
\* that has the name, 0 when the loop runs to the end.
FirstNamed(list, name) ==
    IF \E i \in 1..Len(list) : list[i].Name = name
    THEN CHOOSE i \in 1..Len(list) :
             /\ list[i].Name = name
             /\ \A j \in 1..(i - 1) : list[j].Name # name
    ELSE 0

\* The outer loop of addOrUpdateClusterConfig, lines 69-87: each cluster of
\* the argument in turn overwrites the entry of its name or is appended.
RECURSIVE AddedOrUpdated(_, _)
AddedOrUpdated(list, clusters) ==
    IF clusters = <<>> THEN list
    ELSE LET clusterConfig == Head(clusters)
             i == FirstNamed(list, clusterConfig.Name)
         IN AddedOrUpdated(IF i > 0 THEN [list EXCEPT ![i] = clusterConfig]
                           ELSE Append(list, clusterConfig),
                           Tail(clusters))

\* The outer loop of removeClusterConfig, lines 95-108: each name in turn
\* has its first entry cut out and sets dirty.
RECURSIVE Removed(_, _, _)
Removed(list, clusterNames, wasDirty) ==
    IF clusterNames = <<>> THEN [Clusters |-> list, dirty |-> wasDirty]
    ELSE LET i == FirstNamed(list, Head(clusterNames))
         IN IF i > 0
            THEN Removed(SubSeq(list, 1, i - 1) \o SubSeq(list, i + 1, Len(list)),
                         Tail(clusterNames), TRUE)
            ELSE Removed(list, Tail(clusterNames), wasDirty)

addOrUpdateClusterConfig(clusters) ==
    /\ Clusters' = AddedOrUpdated(Clusters, clusters)
    /\ UNCHANGED dirty
    /\ UNCHANGED notConfig

removeClusterConfig(clusterNames) ==
    /\ LET r == Removed(Clusters, clusterNames, FALSE)
       IN /\ Clusters' = r.Clusters
          /\ dirty' = r.dirty
    /\ UNCHANGED notConfig

NextConfig ==
    \/ \E clusters \in Batches(ClusterConfigs) : addOrUpdateClusterConfig(clusters)
    \/ \E clusterNames \in Batches(ClusterNames) : removeClusterConfig(clusterNames)

SpecConfig == Init /\ [][NextConfig]_vars

\* ======================= the error-logger manager (pkg/log/logger_manager.go)
\* The console path "" (path 0) and two other output paths.
Paths == {0, 1, 2}
LogCallers == 1..MaxLogCalls
NoLogger == 0

\* The create function of a call: none (nil), one that makes a logger, one
\* that returns an error.
CreateFuncs == {"nil", "ok", "fails"}

\* Variant: Lock is granted whoever holds the mutex.
MayLock_any(holder) == TRUE

\* sync.Mutex.Lock: granted when no call holds the mutex.
MayLock(holder) == holder = Nil

\* A task calls GetOrCreateErrorLogger(p, level, f).
LoggerCall(t, p, f) ==
    /\ calls[t].pc = "idle"
    /\ calls' = [calls EXCEPT ![t] = [@ EXCEPT !.pc = "lock", !.p = p, !.f = f]]
    /\ UNCHANGED <<managers, mutex, created>>
    /\ UNCHANGED notLogger

\* Line 57: mng.mutex.Lock().
LoggerLock(t) ==
    /\ calls[t].pc = "lock"
    /\ MayLock(mutex)
    /\ mutex' = t
    /\ calls' = [calls EXCEPT ![t].pc = "locked"]
    /\ UNCHANGED <<managers, created>>
    /\ UNCHANGED notLogger

\* Lines 59-65: the entry of the path is returned if there is one; without
\* it a nil create function gives ErrNoLoggerFound.
LoggerLookup(t) ==
    /\ calls[t].pc = "locked"
    /\ LET c == calls[t]
       IN calls' = [calls EXCEPT ![t] =
             IF managers[c.p] # NoLogger
             THEN [c EXCEPT !.pc = "unlock", !.lg = managers[c.p]]
             ELSE IF c.f = "nil"
             THEN [c EXCEPT !.pc = "unlock", !.err = "ErrNoLoggerFound"]
             ELSE [c EXCEPT !.pc = "create"]]
    /\ UNCHANGED <<managers, mutex, created>>
    /\ UNCHANGED notLogger

\* Lines 66-69: lg, err := f(p, level); an error is returned as it is.
LoggerCreate(t) ==
    /\ calls[t].pc = "create"
    /\ IF calls[t].f = "ok"
       THEN /\ created' = Append(created, calls[t].p)
            /\ calls' = [calls EXCEPT ![t] =
                  [@ EXCEPT !.pc = "store", !.lg = Len(created) + 1]]
       ELSE /\ calls' = [calls EXCEPT ![t] =
                  [@ EXCEPT !.pc = "unlock", !.err = "create failed"]]
            /\ UNCHANGED created
    /\ UNCHANGED <<managers, mutex>>
    /\ UNCHANGED notLogger

\* Line 70: mng.managers[p] = lg.
LoggerStore(t) ==
    /\ calls[t].pc = "store"
    /\ managers' = [managers EXCEPT ![calls[t].p] = calls[t].lg]
    /\ calls' = [calls EXCEPT ![t].pc = "unlock"]
    /\ UNCHANGED <<mutex, created>>
    /\ UNCHANGED notLogger

\* Line 58, run at the return: defer mng.mutex.Unlock().
LoggerUnlock(t) ==
    /\ calls[t].pc = "unlock"
    /\ mutex' = Nil
    /\ calls' = [calls EXCEPT ![t].pc = "done"]
    /\ UNCHANGED <<managers, created>>
    /\ UNCHANGED notLogger

GetOrCreateErrorLogger(t) ==
    \/ LoggerLock(t)
    \/ LoggerLookup(t)
    \/ LoggerCreate(t)
    \/ LoggerStore(t)
    \/ LoggerUnlock(t)

NextLogger ==
    \/ \E t \in LogCallers, p \in Paths, f \in CreateFuncs : LoggerCall(t, p, f)
    \/ \E t \in LogCallers : GetOrCreateErrorLogger(t)

SpecLogger == Init /\ [][NextLogger]_vars

\* =============================== the metrics transfer server (part_001)
\* What a peer may encode: the metrics of a store as makesTransferData
\* gives them, an empty list, and lists made by hand, among them a counter
\* that comes without a value.
PeerTransfers ==
    LET id == Registrations[1]
        Of(data) == <<[Type |-> id.Type, Labels |-> id.Labels, Data |-> data]>>
        counter == [MetricsType |-> metricsCounter, MetricsKey |-> MetricsKeys[1],
                    MetricsValues |-> <<2>>]
        gauge == [MetricsType |-> metricsGauge, MetricsKey |-> MetricsKeys[2],
                  MetricsValues |-> <<1>>]
        bare == [MetricsType |-> metricsCounter, MetricsKey |-> MetricsKeys[1],
                 MetricsValues |-> <<>>]
    IN {<<>>, Of(<<counter>>), Of(<<counter, gauge>>), Of(<<bare>>),
        Of(<<gauge, bare>>)}

\* The bytes of a gob message, in units: the length of the list first,
\* then one unit for each of its elements.
Gob(transfers) == <<[count |-> Len(transfers)]>> \o Encode(transfers)

\* A byte that belongs to no gob message.
Junk == [junk |-> TRUE]

\* What a peer may put on the wire after the header: a gob message whole,
\* one cut short, or bytes that are no gob message.
Wires ==
    {Gob(t) : t \in PeerTransfers}
      \cup {SubSeq(Gob(t), 1, 1) : t \in PeerTransfers \ {<<>>}}
      \cup {<<Junk>>, <<Junk, Junk>>}

\* The 4 bytes of the header of a body of the given length, big endian.
Header(size) ==
    <<(size \div 16777216) % 256, (size \div 65536) % 256,
      (size \div 256) % 256, size % 256>>

\* binary.BigEndian.Uint32(b)
Uint32(b) == b[1] * 16777216 + b[2] * 65536 + b[3] * 256 + b[4]

\* The bytes a connection delivers before the peer closes it: the first
\* bytes of the header and, after a whole header, the wire.
Stream(req) ==
    SubSeq(Header(req.size), 1, req.header)
      \o (IF req.header = 4 THEN req.wire ELSE <<>>)

\* read(conn, size), lines 230-247: nothing is read for size 0; otherwise
\* conn.Read is called until size bytes are there, and its error (the end
\* of what the peer sent) is returned when they are not.
read(incoming, size) ==
    IF size = 0 THEN [b |-> <<>>, err |-> FALSE, rest |-> incoming]
    ELSE IF Len(incoming) < size THEN [b |-> <<>>, err |-> TRUE, rest |-> <<>>]
    ELSE [b |-> SubSeq(incoming, 1, size), err |-> FALSE,
          rest |-> SubSeq(incoming, size + 1, Len(incoming))]

\* readHeader(conn), lines 248-254.
readHeader(incoming) ==
    LET r == read(incoming, 4)
    IN IF r.err THEN [size |-> 0, err |-> TRUE, rest |-> r.rest]
       ELSE [size |-> Uint32(r.b), err |-> FALSE, rest |-> r.rest]

\* gob.NewDecoder(buf).Decode(&transfers) returns no error: the bytes are
\* one whole gob message.
Decodable(b) ==
    /\ b # <<>>
    /\ DOMAIN b[1] = {"count"}
    /\ b[1].count = Len(b) - 1
    /\ \A i \in 2..Len(b) : DOMAIN b[i] = {"Type", "Labels", "Data"}

\* Lines 114 and 116: metric.MetricsValues[0] of a counter or a gauge that
\* has no value is an index out of range.
IndexPanics(d) ==
    d.MetricsType \in {metricsCounter, metricsGauge} /\ d.MetricsValues = <<>>

\* The Data of a transfer up to the first entry that panics, and whether
\* there is one.
UpToPanic(data) ==
    IF \E j \in 1..Len(data) : IndexPanics(data[j])
    THEN SubSeq(data, 1, (CHOOSE j \in 1..Len(data) :
                            /\ IndexPanics(data[j])
                            /\ \A k \in 1..(j - 1) : ~IndexPanics(data[k])) - 1)
    ELSE data

Panics(transfers) ==
    \E i \in 1..Len(transfers) :
       \E j \in 1..Len(transfers[i].Data) : IndexPanics(transfers[i].Data[j])

\* The transfers that are applied before the panic: those before the
\* transfer that panics, and of that one the Data before the entry.
AppliedBeforePanic(transfers) ==
    LET i == CHOOSE k \in 1..Len(transfers) :
                 /\ \E j \in 1..Len(transfers[k].Data) :
                       IndexPanics(transfers[k].Data[j])
                 /\ \A m \in 1..(k - 1) :
                       \A j \in 1..Len(transfers[m].Data) :
                          ~IndexPanics(transfers[m].Data[j])
    IN SubSeq(transfers, 1, i - 1)
         \o <<[transfers[i] EXCEPT !.Data = UpToPanic(@)]>>

\* handler(conn), lines 264-280, with readTransferData, lines 102-126:
\* the outcomes, each with the error returned, whether the task panicked,
\* and the store left behind.
handler(incoming, store) ==
    LET h == readHeader(incoming)
        r == read(h.rest, h.size)
        failed == {[err |-> TRUE, panic |-> FALSE, store |-> store]}
    IN IF h.err THEN failed
       ELSE IF r.err THEN failed
       ELSE IF ~Decodable(r.b) THEN failed
       ELSE LET transfers == Decode(SubSeq(r.b, 2, Len(r.b)))
            IN IF Panics(transfers)
               THEN {[err |-> FALSE, panic |-> TRUE, store |-> s] :
                       s \in readTransfers(store, AppliedBeforePanic(transfers))}
               ELSE {[err |-> FALSE, panic |-> FALSE, store |-> s] :
                       s \in readTransfers(store, transfers)}

\* One accepted connection, lines 161-169, and serveConn, lines 256-262: the
\* task runs the handler and writes one byte, 1 after an error.  Nothing
\* recovers a panic of this task: it ends the process and no byte is
\* written.
serveConn(req) ==
    /\ serverPc = "serving"
    /\ nServed < MaxServed
    /\ nServed' = nServed + 1
    /\ request' = req
    /\ \E out \in handler(Stream(req), serverStore) :
          /\ serverStore' = out.store
          /\ reply' = IF out.panic THEN <<>>
                      ELSE IF out.err THEN <<1>> ELSE <<0>>
          /\ serverPc' = IF out.panic THEN "crashed" ELSE "serving"
    /\ UNCHANGED notTransferServer

\* What the peers of the server may send.
Requests == [header : 0..4, size : 0..MaxSize, wire : Wires]

NextTransferServer == \E req \in Requests : serveConn(req)

SpecTransferServer == Init /\ [][NextTransferServer]_vars

\* ======================================================== the claims
\* The clients whose connection has not failed and has not delivered its
\* close event.
Live == {c \in 1..nCreated : conn[c] \in {"open", "closing"}}

\* A step in which call t runs getAvailableClient.
Begins(t) == pc[t] = "idle" /\ pc'[t] # "idle"

\* A step in which call t, with a client in hand, runs the rest of NewStream.
Admits(t) == pc[t] = "got" /\ pc'[t] = "done"

\* C1: in every reachable state totalClientCount, read as the unsigned
\* number it is, is at most the connection maximum.
C1_TotalAtMostMax == ~U64Lt(MaxConnections, totalClientCount)

\* C1 witness: the count stands at the maximum and a call was refused there.
C1_Witness ==
    /\ totalClientCount = MaxConnections
    /\ \E t \in Threads : pc[t] = "done" /\ held[t] = Nil /\ reason[t] = "Overflow"

\* C2 as stated: free clients plus clients handed out and not yet given back
\* by onStreamDestroy never exceed totalClientCount, also after a close event
\* for a client that is in use.
C2_FreePlusInUse ==
    Len(availableClients) + Cardinality(handedOut) <= totalClientCount

\* C2 amended: free clients plus the handed-out clients whose closed flag is
\* false never exceed totalClientCount; a close event takes the client out
\* of the count at once, while it may still be in use.
C2_FreePlusOpenInUse ==
    Len(availableClients) + Cardinality({c \in handedOut : ~closed[c]})
        <= totalClientCount

\* C2 witness: a close event has arrived for a client that is in use, while
\* another client is counted.
C2_Witness ==
    /\ \E c \in handedOut : closed[c] /\ stream[c] # "none"
    /\ totalClientCount >= 1

\* C3: a client occurs at most once in the free list, and a client that is
\* handed out is not in the free list.
C3_FreeListDistinct ==
    /\ \A i, j \in 1..Len(availableClients) :
          i # j => availableClients[i] # availableClients[j]
    /\ \A c \in handedOut : c \notin Range(availableClients)

\* C3 witness: with two clients created, the third call took one of them
\* from the free list and it carries a stream, while the other is free.
C3_Witness ==
    /\ nCreated = 2
    /\ nCalls = 3
    /\ pc[3] = "done"
    /\ held[3] \in handedOut
    /\ stream[held[3]] = "active"
    /\ Len(availableClients) = 1

\* C4: every client of the free list has closed = FALSE.
C4_FreeListOpen == \A c \in Range(availableClients) : ~closed[c]

\* C4 witness: a client whose stream was reset by its connection is closed
\* and its stream destroyed, and the free list holds another client.
C4_Witness ==
    /\ \E c \in 1..nCreated :
          closed[c] /\ closeWithActiveReq[c] /\ stream[c] = "none"
                    /\ c \notin handedOut
    /\ availableClients # <<>>

\* C5: with a connection maximum of 2 and three concurrent calls against a
\* host whose connects fail, once the three calls have returned and every
\* connection event has been processed: two clients were created and the
\* third call was told Overflow (or a third connect was tried and the call
\* told ConnectionFailure), and totalClientCount is back to 0.
C5_Saturation ==
    ( /\ MaxConnections = 2
      /\ nCalls >= 3
      /\ \A t \in 1..3 : pc[t] = "done"
      /\ connectErr = 1..nCreated
      /\ \A c \in 1..nCreated : conn[c] # "closing" )
    => /\ \/ notified[3] = <<Failure("Overflow")>> /\ nCreated = 2
          \/ notified[3] = <<Failure("ConnectionFailure")>> /\ nCreated = 3
       /\ totalClientCount = 0

\* C6: a call that finds the free list empty and the count at the maximum
\* creates no client, leaves the count, the free list and the connections
\* alone, adds one to the pending-overflow counter of the host and of the
\* cluster, and tells its listener Overflow.
C6_OverflowAtMax ==
    [][\A t \in Threads :
         (Begins(t) /\ availableClients = <<>>
                    /\ ~U64Lt(totalClientCount, MaxConnections))
         => /\ nCreated' = nCreated
            /\ totalClientCount' = totalClientCount
            /\ availableClients' = availableClients
            /\ conn' = conn
            /\ handedOut' = handedOut
            /\ hostStats' = Inc(hostStats, "UpstreamRequestPendingOverflow")
            /\ clusterStats' = Inc(clusterStats, "UpstreamRequestPendingOverflow")
            /\ notified'[t] = <<Failure("Overflow")>>]_vars

\* C6 witness: a call was refused with the free list empty and the count at
\* the maximum.
C6_Witness ==
    /\ availableClients = <<>>
    /\ totalClientCount = MaxConnections
    /\ \E t \in Threads : notified[t] = <<Failure("Overflow")>> /\ held[t] = Nil
    /\ hostStats["UpstreamRequestPendingOverflow"] = 1
    /\ clusterStats["UpstreamRequestPendingOverflow"] = 1

\* C7: the client of a call refused by the requests resource stays allocated
\* and comes back to the free list on stream destroy: while it is handed out
\* it carries a stream whose destroy will return it.
C7_RefusedClientReturns ==
    \A t \in Threads :
        ( /\ pc[t] = "done"
          /\ held[t] # Nil
          /\ notified[t] = <<Failure("Overflow")>>
          /\ held[t] \in handedOut )
        => stream[held[t]] \in {"active", "reset"}

\* C8: a call that finds the free list non-empty takes the client returned
\* most recently among those in the list, creates none and leaves the count
\* alone; a client is created only with the list empty and the count below
\* the maximum, and then the count goes up by exactly one.
C8_PopsLastReturned ==
    [][\A t \in Threads : Begins(t) =>
         /\ availableClients # <<>> =>
               /\ destroyLog # <<>>
               /\ held'[t] = destroyLog[Len(destroyLog)]
               /\ nCreated' = nCreated
               /\ totalClientCount' = totalClientCount
               /\ Len(availableClients') = Len(availableClients) - 1
               /\ Range(availableClients') = Range(availableClients) \ {held'[t]}
         /\ nCreated' # nCreated =>
               /\ availableClients = <<>>
               /\ U64Lt(totalClientCount, MaxConnections)
               /\ nCreated' = nCreated + 1
               /\ totalClientCount' = totalClientCount + 1
         /\ (availableClients = <<>> /\ U64Lt(totalClientCount, MaxConnections))
               => nCreated' = nCreated + 1]_vars

\* C8 witness: with two clients created, the third call took a client from a
\* free list of two and left the other there.
C8_Witness ==
    /\ nCreated = 2
    /\ nCalls = 3
    /\ pc[3] = "got"
    /\ held[3] # Nil
    /\ Len(availableClients) = 1

\* C9: every call tells its listener exactly one thing.  Without a client it
\* is the failure reason, told once.  With a client it is either Ready for
\* that client, with the request counters of host and cluster and the
\* requests resource each up by one, or Overflow, with the active counters,
\* the requests resource and the streams untouched; it is Overflow whenever
\* the pool alone fills the requests resource.
C9_NotifiedOnce ==
    [][\A t \in Threads :
         /\ Begins(t) =>
               IF held'[t] = Nil
               THEN /\ pc'[t] = "done"
                    /\ \/ notified'[t] = <<Failure("Overflow")>>
                       \/ notified'[t] = <<Failure("ConnectionFailure")>>
               ELSE pc'[t] = "got" /\ notified'[t] = <<>>
         /\ Admits(t) =>
               \/ /\ notified'[t] = <<Ready(held[t])>>
                  /\ CanCreate(requests)
                  /\ requests' = requests + 1
                  /\ stream' = [stream EXCEPT ![held[t]] = "active"]
                  /\ hostStats' = [hostStats EXCEPT
                         !["UpstreamRequestTotal"] = @ + 1,
                         !["UpstreamRequestActive"] = @ + 1]
                  /\ clusterStats' = [clusterStats EXCEPT
                         !["UpstreamRequestTotal"] = @ + 1,
                         !["UpstreamRequestActive"] = @ + 1]
               \/ /\ notified'[t] = <<Failure("Overflow")>>
                  /\ requests' = requests
                  /\ stream' = stream
                  /\ hostStats'["UpstreamRequestActive"]
                        = hostStats["UpstreamRequestActive"]
                  /\ clusterStats'["UpstreamRequestActive"]
                        = clusterStats["UpstreamRequestActive"]
         /\ (pc[t] = "done" /\ pc'[t] = "done") => notified'[t] = notified[t]]_vars

\* C9 witness: one call was told Ready and another a failure.
C9_Witness ==
    \E t, u \in Threads :
        /\ pc[t] = "done" /\ notified[t] = <<Ready(held[t])>>
        /\ pc[u] = "done" /\ Len(notified[u]) = 1
        /\ notified[u][1].kind = "Failure"

\* C10: closed and failed clients do not hold capacity: whenever fewer
\* clients than the maximum are live, the count is below the maximum, so
\* that a call finding the free list empty creates a replacement.
C10_CapacityRestored ==
    Cardinality(Live) < MaxConnections
        => U64Lt(totalClientCount, MaxConnections)

\* A step of Close: connections change, no client is created and no closed
\* flag is set, and clientMux was free.
CloseStep ==
    /\ conn' # conn
    /\ nCreated' = nCreated
    /\ closed' = closed
    /\ clientMux = "free"

\* C11: a call of Close closes every client that is in the free list when
\* it is called, so that none of them is left open, and touches the
\* connection of no other client, in use or not.
C11_CloseClosesFreeList ==
    [][CloseStep =>
         /\ \A c \in Range(availableClients) : conn'[c] # "open"
         /\ \A c \in Clients \ Range(availableClients) : conn'[c] = conn[c]]_vars

\* C12: when Dispatch is not running the buffer it was given is empty; the
\* bytes Read has copied out, followed by what is left of the buffer, are
\* the bytes given to Dispatch, in order, each once; and while Read copies
\* from the buffer the dispatcher waits for the sentinel.
C12_PipeRendezvous ==
    /\ dispatchPc = "idle" => buffer = <<>>
    /\ readOut \o buffer = [i \in 1..nDispatched |-> i]
    /\ readPc = "copy" => dispatchPc = "wait"

\* C13: once the transport has told a close event the channel is closed,
\* and the parser loop ends by no other route than the closed channel: a
\* parser loop that has returned has a closed channel behind it.
C13_ClosedPipeEndsParser ==
    /\ transport \in CloseEvents => bufChan = "closed"
    /\ readPc = "exited" => bufChan = "closed"

\* The places on the connection of the messages stream s has been told of,
\* or holds until its delivery is resumed.
ToldOf(s) ==
    {observed[s][i].idx : i \in 1..Len(observed[s])} \cup {message[s].idx}

\* C14: on a client stream connection a decoded response goes to the stream
\* whose request it answers, the k-th response to the stream that wrote
\* the k-th request, never to a stream NewStream installed later, and
\* never to a nil current stream.
C14_ResponseToItsStream ==
    side = "client" =>
        /\ \A s \in Streams : \A k \in ToldOf(s) \ {0} :
               k <= Len(reqLog) /\ reqLog[k] = s
        /\ "serve" \notin panicked

\* The places in what stream s was told of the events named ev, and of
\* the events that say end of stream.
Told(s, ev) == {i \in 1..Len(observed[s]) : observed[s][i].ev = ev}
ToldEnd(s) == {i \in 1..Len(observed[s]) : observed[s][i].end}

\* C15: whatever ReadDisable calls are made, the receiver of a stream is
\* told the headers at most once and the end of the stream at most once,
\* and a body is one data event, told after the headers.
C15_ToldOnce ==
    \A s \in Streams :
        /\ Cardinality(Told(s, "headers")) <= 1
        /\ Cardinality(ToldEnd(s)) <= 1
        /\ Cardinality(Told(s, "data")) <= 1
        /\ \A i \in Told(s, "data") : \E j \in Told(s, "headers") : j < i

\* C16: a parser loop that has returned, on a decode failure or otherwise,
\* leaves a closed connection behind it, so that no Dispatch waits for a
\* reader that is gone; and the current stream, if there is one, was told
\* a reset or the end of its message.
C16_DecodeFailureCloses ==
    servePc = "exited" =>
        /\ bufChan = "closed"
        /\ transport \notin {"new", "connected"}
        /\ current # Nil => Finished(current)

\* A step in which endStream writes the response of server stream s.
Writes(s) == ended[s] = "no" /\ ended'[s] = "signalled"

\* A step in which endStream, the response of s written, does the rest.
Finishes(s) == ended[s] = "signalled" /\ ended'[s] = "done"

\* C17: the response of a server stream follows its request.  A request
\* with close: the response is written with close and the transport, if it
\* is open, is closed with LocalClose by the step after the write, not by
\* the write.  A request without close that is not HTTP/1.1: the response
\* is written with keep-alive.  An HTTP/1.1 request without close: the
\* response is written with the header the driver gave it.  Without close
\* neither step touches the transport.
C17_ResponseFollowsRequest ==
    [][\A s \in Streams :
         LET req == message[s]
             open == transport \in {"new", "connected"}
         IN /\ Writes(s) =>
                 /\ transport' = transport
                 /\ written'[s].sent =
                        IF req.close THEN "close"
                        ELSE IF ~req.http11 THEN "keep-alive"
                        ELSE written'[s].given
            /\ Finishes(s) =>
                 /\ written[s].sent # "unwritten"
                 /\ transport' =
                        IF req.close /\ open THEN "LocalClose" ELSE transport
                 /\ req.close => bufChan' = "closed"]_vars

\* C17 witness: two server streams have completed on one connection; the
\* older request, not HTTP/1.1 and without close, was answered with
\* keep-alive, the newer one, with close, was answered with close, and the
\* transport was closed with LocalClose.
C17_Witness ==
    \E s, t \in Streams :
        /\ ended[s] = "done" /\ ended[t] = "done"
        /\ ~message[s].close /\ ~message[s].http11
        /\ written[s].sent = "keep-alive"
        /\ message[t].close /\ written[t].sent = "close"
        /\ transport = "LocalClose"

\* Some method is the beginning of the bytes read.
MethodFirst ==
    \E w \in httpMethod :
        Len(w) <= Len(magic) /\ \A i \in 1..Len(w) : magic[i] = w[i]

\* C18: asked about the bytes read, the detector says need-more of fewer
\* than 3 bytes; match when a method is their beginning; need-more of 3 to
\* 6 bytes that begin with no method; fail of 7 bytes or more that begin
\* with no method, and of nothing else.  "GE" is need-more, "GET " is a
\* match, "XYZZY!!" fails.
C18_ProtocolMatch ==
    matched # "none" =>
        /\ Len(magic) < 3 => matched = "EAGAIN"
        /\ MethodFirst => matched = "nil"
        /\ (Len(magic) \in 3..6 /\ ~MethodFirst) => matched = "EAGAIN"
        /\ matched = "FAILED" <=> (Len(magic) >= 7 /\ ~MethodFirst)
        /\ magic = <<"G", "E">> => matched = "EAGAIN"
        /\ magic = <<"G", "E", "T", " ">> => matched = "nil"
        /\ magic = <<"X", "Y", "Z", "Z", "Y", "!", "!">> => matched = "FAILED"

\* C18 witness: the seven bytes XYZZY!! have been read and refused.
C18_Witness ==
    /\ magic = <<"X", "Y", "Z", "Z", "Y", "!", "!">>
    /\ matched = "FAILED"

\* The Timeout statuses the callbacks were told since the last Success.
RECURSIVE Trailing(_)
Trailing(log) ==
    IF log = <<>> \/ log[Len(log)].status # "Timeout" THEN 0
    ELSE 1 + Trailing(SubSeq(log, 1, Len(log) - 1))

\* C19: when the count of timeouts in a row reaches the threshold the
\* callbacks have been told exactly that many Timeouts in a row, the codec
\* is closed and the controller is Stopped; and a SendKeepAlive made when
\* the controller is Stopped sends no probe, tells the callbacks nothing
\* and changes nothing but the number of calls made.
C19_ThresholdStops ==
    [][/\ timeoutCount' >= Threshold =>
            /\ State' = "Stopped"
            /\ codec' = "closed"
            /\ Trailing(statuses') = Threshold
       /\ (stop /\ sendCalls' # sendCalls) =>
            UNCHANGED <<stop, codec, pending, timers, inflight, timeoutCount,
                        idleWatch, idleCount, sent, statuses>>]_vars

\* C19 witness: the threshold was reached by the first probes, each timed
\* out, and SendKeepAlive was called after that and sent nothing.
C19_Witness ==
    /\ State = "Stopped"
    /\ codec = "closed"
    /\ Len(statuses) = Threshold
    /\ Trailing(statuses) = Threshold
    /\ sent = Threshold
    /\ sendCalls > sent

\* C20: timeoutCount is the number of Timeouts the callbacks were told since
\* the last Success, 0 right after a Success; and the codec is closed for
\* timeouts only when that number is the threshold.
C20_SuccessResets ==
    /\ timeoutCount = Trailing(statuses)
    /\ (statuses # <<>> /\ statuses[Len(statuses)].status = "Success") =>
           timeoutCount = 0
    /\ codec = "closed" =>
           timeoutCount = Threshold \/ IdleFree(idleCount)

\* C20 witness: one probe fewer than the threshold timed out, the next
\* one succeeded, and the codec is open with the count at 0.
C20_Witness ==
    /\ Len(statuses) = Threshold
    /\ \A i \in 1..(Threshold - 1) : statuses[i].status = "Timeout"
    /\ statuses[Threshold].status = "Success"
    /\ timeoutCount = 0
    /\ codec = "open"

\* The callbacks told about probe id.
Callbacks(id) == {i \in 1..Len(statuses) : statuses[i].id = id}

C22_IdleTimeout ==
    [][/\ (~stop /\ sendCalls' # sendCalls) =>
            /\ idleCount' = idleCount + 1
            /\ (idleWatch /\ idleCount' >= MaxIdleCount) =>
                  /\ State' = "Stopped"
                  /\ codec' = "closed"
                  /\ statuses' = statuses
                  /\ UNCHANGED <<pending, timers, inflight, sent, timeoutCount>>
            /\ ~(idleWatch /\ idleCount' >= MaxIdleCount) =>
                  /\ State' # "Stopped"
                  /\ codec' = "open"
                  /\ sent' = sent + 1
       /\ idleCount' < idleCount =>
            /\ idleCount' = 0
            /\ UNCHANGED <<stop, codec, pending, timers, inflight,
                           timeoutCount, idleWatch, sent, sendCalls, statuses>>
       /\ stop' =>
            \/ timeoutCount' >= Threshold
            \/ idleWatch' /\ idleCount' >= MaxIdleCount]_vars

\* C22 witness: the watcher was started, the maximum of probes was sent in
\* one run with no application stream, and the controller is Stopped with
\* the codec closed and no Timeout told.
C22_Witness ==
    /\ idleWatch
    /\ idleCount = MaxIdleCount
    /\ sendCalls = MaxIdleCount
    /\ State = "Stopped"
    /\ codec = "closed"
    /\ timeoutCount = 0
    /\ \A i \in 1..Len(statuses) : statuses[i].status # "Timeout"

\* C23: when readTransferData has been applied on an empty store to the
\* bytes of makesTransferData, the store is the one makesTransferData
\* read: the same sets by type and labels, the same keys, the same kinds
\* and the same values.
C23_RoundTrip ==
    handoff = "read" => defaultStore = source

\* C24: a close event of a client's connection takes one from
\* totalClientCount, takes the client out of the free list, the other
\* clients staying in their order, and sets the closed flag of that client
\* and of no other; ConnectTimeout adds one to the timeout counters of
\* host and cluster and starts the close of the codec, ConnectFailed adds
\* one to the connection-failure counters, and neither touches the free
\* list or a closed flag, nor totalClientCount beyond the increment
\* getAvailableClient made for the new client.
C24_ConnectionEventFrame ==
    [][\A c \in Clients :
          /\ (conn[c] \in {"open", "closing"} /\ conn'[c] = "closed") =>
                /\ totalClientCount' = totalClientCount - 1
                /\ availableClients' = Forget(availableClients, c)
                /\ closed' = [closed EXCEPT ![c] = TRUE]
          /\ (conn[c] = "none" /\ conn'[c] = "closing") =>
                /\ hostStats' = Inc(hostStats, "UpstreamRequestTimeout")
                /\ clusterStats' = Inc(clusterStats, "UpstreamRequestTimeout")
                /\ totalClientCount' = totalClientCount + 1
                /\ UNCHANGED <<availableClients, closed>>
          /\ (conn[c] = "none" /\ conn'[c] = "failed") =>
                /\ hostStats' = Inc(hostStats, "UpstreamConnectionConFail")
                /\ clusterStats' = Inc(clusterStats, "UpstreamConnectionConFail")
                /\ totalClientCount' = totalClientCount + 1
                /\ UNCHANGED <<availableClients, closed>>]_vars

\* C24 witness: two clients were made, served a request each and are
\* handed out no more; the connection of the first delivered its close
\* event: its flag is set, the count is one less and the free list holds
\* the second client alone.
C24_Witness ==
    /\ nCreated = 2
    /\ hostStats["UpstreamRequestTotal"] = 2
    /\ handedOut = {}
    /\ conn[1] = "closed" /\ closed[1]
    /\ conn[2] = "open" /\ ~closed[2]
    /\ availableClients = <<2>>
    /\ totalClientCount = 1

\* The clients with a stream in flight: admitted by NewStream and not yet
\* destroyed.
InFlight == {c \in Clients : stream[c] \in {"active", "reset"}}

\* C25: onStreamDestroy takes one from the active-request counters of host
\* and cluster and from the requests resource, appends the client to the
\* free list exactly when its closed flag is false, and leaves
\* totalClientCount and the flags alone; and the active-request counters
\* and the requests taken by this pool are always the number of streams
\* in flight, so they are back at their initial 0 when there is none.
C25_DestroyGivesBack ==
    [][/\ \A c \in Clients :
            (stream[c] # "none" /\ stream'[c] = "none") =>
                /\ hostStats' = Dec(hostStats, "UpstreamRequestActive")
                /\ clusterStats' = Dec(clusterStats, "UpstreamRequestActive")
                /\ requests' = requests - 1
                /\ availableClients' = IF closed[c] THEN availableClients
                                       ELSE Append(availableClients, c)
                /\ UNCHANGED <<totalClientCount, closed, closeWithActiveReq>>
       /\ requests' = Cardinality(InFlight')
       /\ hostStats'["UpstreamRequestActive"] = requests'
       /\ clusterStats'["UpstreamRequestActive"] = requests']_vars

\* C25 witness: two requests were admitted and both streams are destroyed,
\* the second on a client whose connection had closed: the first client
\* is in the free list, the second is not, and the counters and the
\* requests resource are back at 0.
C25_Witness ==
    /\ hostStats["UpstreamRequestTotal"] = 2
    /\ InFlight = {}
    /\ handedOut = {}
    /\ closed[2] /\ ~closed[1]
    /\ availableClients = <<1>>
    /\ hostStats["UpstreamRequestActive"] = 0
    /\ clusterStats["UpstreamRequestActive"] = 0
    /\ requests = 0

\* The statistics with one more under the name, the name "" standing for
\* no counter.
Counted(stats, name) == IF name = "" THEN stats ELSE Inc(stats, name)

C27_StrictAlternation ==
    /\ ~(dispatchPc = "send" /\ readPc = "sentinel")
    /\ ~(dispatchPc = "wait" /\ readPc = "recv")
    /\ readPc \in {"copy", "sentinel"} => dispatchPc = "wait"
    /\ dispatchPc \in {"check", "idle"} => readPc \notin {"copy", "sentinel"}

\* C28: on a client connection the transport is closed with LocalClose
\* only when the response that says close has been told to the receiver
\* of its stream, no response being held back for a paused stream, and
\* the parser loop has then ended.
C28_CloseAfterDelivery ==
    (side = "client" /\ transport = "LocalClose") =>
        /\ \A s \in Streams : message[s] = NoMsg
        /\ servePc = "exited"

\* The streams of the connection whose response the driver has not
\* written.
Unanswered == {s \in 1..nStreams : ended[s] = "no"}

\* C29: the server parser reads and hands on a request only when every
\* stream before has had its response written and its completion channel
\* signalled; at most the last stream is unanswered, and then the parser
\* waits for it; and the parser goes on once per stream, taking the one
\* value its completion channel was given.
C29_OneRequestAtATime ==
    [][side = "server" =>
         /\ nStreams' # nStreams =>
               /\ Unanswered = {}
               /\ nStreams' = nStreams + 1
               /\ nDecoded' = nDecoded + 1
               /\ servePc' = "wait"
               /\ Unanswered' = {nStreams'}
         /\ (servePc = "wait" /\ servePc' = "read") =>
               /\ ended[nStreams] # "no"
               /\ nStreams \in responseDone
               /\ responseDone' = {}
         /\ responseDone' # responseDone =>
               \/ responseDone' = {nStreams} /\ Unanswered = {nStreams}
                                            /\ Unanswered' = {}
               \/ responseDone' = {} /\ servePc = "wait" /\ servePc' = "read"
         /\ Unanswered' \subseteq {nStreams'}
         /\ servePc' = "read" => Unanswered' = {} /\ responseDone' = {}
         /\ nDecoded' # nDecoded => servePc = "read"]_vars

\* C29 witness: the response of the first stream was written and its
\* channel signalled, the parser went on, read the second request and
\* handed it to its receiver, and now waits for the second response.
C29_Witness ==
    /\ side = "server"
    /\ nStreams = 2
    /\ nDecoded = 2
    /\ ended[1] # "no"
    /\ ended[2] = "no"
    /\ observed[2] # <<>>
    /\ responseDone = {}
    /\ servePc = "wait"

\* C30: on both sides the headers of a message are told with the end of
\* stream set exactly when the message has no body; headers told without
\* it are followed at once by one data event of the same message with
\* the end of stream set, and a data event comes in no other place.  The
\* request of a server stream and the response held for a paused client
\* stream are told according to their own body.
C30_EndOfStreamFlag ==
    [][/\ \A s \in Streams : \A i \in 1..Len(observed'[s]) :
            LET e == observed'[s][i]
                next == SubSeq(observed'[s], i + 1, Min(i + 1, Len(observed'[s])))
            IN /\ e.ev = "headers" =>
                     (e.end <=> next # <<Event("data", TRUE, e.idx)>>)
               /\ e.ev = "data" =>
                     /\ e.end
                     /\ i > 1
                     /\ observed'[s][i - 1] = Event("headers", FALSE, e.idx)
       /\ \A s \in Streams :
            (side' = "server" /\ s \in 1..nStreams' /\ message'[s] # NoMsg) =>
                observed'[s][1] = Event("headers", ~message'[s].hasData, message'[s].idx)
       /\ \A s \in Streams :
            (side = "client" /\ message[s] # NoMsg /\ message'[s] = NoMsg
                /\ Len(observed'[s]) > Len(observed[s])) =>
                observed'[s] = observed[s] \o
                    (IF message[s].hasData
                     THEN <<Event("headers", FALSE, message[s].idx),
                            Event("data", TRUE, message[s].idx)>>
                     ELSE <<Event("headers", TRUE, message[s].idx)>>)]_vars

\* C30 witness: a server has handed on a first request with a body, told
\* as headers without the end of stream and one data event with it, and a
\* second request without a body, told as headers with the end of stream.
C30_Witness ==
    /\ side = "server"
    /\ message[1].hasData
    /\ observed[1] = <<Event("headers", FALSE, 1), Event("data", TRUE, 1)>>
    /\ ~message[2].hasData
    /\ observed[2] = <<Event("headers", TRUE, 2)>>

\* C31: the read-disable counter of a stream is never below 0 whatever
\* ReadDisable calls are made; the receiver is told of a message only in
\* a step that leaves the counter at 0 or below; and a message held for
\* a paused stream is told in the step that brings the counter back to 0.
C31_ReadDisableCounter ==
    [][\A s \in Streams :
          /\ readDisableCount'[s] >= 0
          /\ (Len(observed'[s]) > Len(observed[s])
                 /\ observed'[s][Len(observed'[s])].ev \in {"headers", "data"}) =>
                readDisableCount'[s] <= 0
          /\ (readDisableCount[s] > 0 /\ readDisableCount'[s] = 0
                 /\ message[s] # NoMsg /\ nStreams' = nStreams) =>
                observed'[s] = observed[s] \o Delivery(message[s])]_vars

\* C32: a panic in the parser task never takes the process down: however
\* many times the parser loop of a connection panics, the panic is
\* recovered at the task boundary and the loop goes on.
C32_PanicRecovered == servePc # "crashed"

\* C34: whenever a close or connect-failure event arrives, Dispatch never
\* sends on the closed channel, Read never sends the sentinel on the closed
\* channel, and OnEvent never closes the channel a second time.
C34_NoPanicOnClosedPipe == panicked \cap {"Dispatch", "Read", "OnEvent"} = {}

\* C35: Close always returns and no pool operation waits for clientMux
\* for good: Close is never left holding the mutex while the close event
\* it raised itself waits in onConnectionEvent for that mutex.
C35_CloseReturns == clientMux # "Close"

\* C36: totalClientCount is never decremented while it is 0, so that it
\* never wraps around to 2^64 - 1, whatever events arrive: a failed
\* connect and a second close event on one connection included.
C36_NoWrapAround == [][totalClientCount = 0 => totalClientCount' >= 0]_vars

\* C37: while a server stream is being processed, from the parser making
\* it until its endStream, the connection's current-stream pointer is that
\* stream: the completion of the stream before never clears the pointer
\* once the parser has installed the next stream.
C37_CurrentStreamPointer ==
    \A s \in 1..nStreams : (side = "server" /\ ended[s] = "no") => current = s

\* The list without its first entry equal to cb, the list itself when it
\* has none.
WithoutListener(cbs, cb) ==
    IF \E i \in 1..Len(cbs) : cbs[i] = cb
    THEN LET i == CHOOSE k \in 1..Len(cbs) :
                      cbs[k] = cb /\ \A j \in 1..(k - 1) : cbs[j] # cb
         IN SubSeq(cbs, 1, i - 1) \o SubSeq(cbs, i + 1, Len(cbs))
    ELSE cbs

\* C33: RemoveEventListener(cb) takes the entry of cb out of the list of
\* listeners and leaves the other listeners as they are, in their order;
\* when cb is not in the list the list is as it was.
C33_RemoveEventListener ==
    [][\A cb \in Listeners :
          RemoveEventListener(cb) => streamCbs' = WithoutListener(streamCbs, cb)]_vars

\* The names a list of clusters, or of names, holds.
NamesOf(list) == {list[i].Name : i \in 1..Len(list)}
Named(clusterNames) == {clusterNames[i] : i \in 1..Len(clusterNames)}

PairwiseDistinct(list) ==
    \A i, j \in 1..Len(list) : i # j => list[i].Name # list[j].Name

\* The last cluster of the argument that has the name.
LastOccurrence(clusters, name) ==
    clusters[CHOOSE i \in 1..Len(clusters) :
                 /\ clusters[i].Name = name
                 /\ \A j \in (i + 1)..Len(clusters) : clusters[j].Name # name]

\* The entries of the list whose name is not in the set, in their order.
Others(list, names) == SelectSeq(list, LAMBDA c : c.Name \notin names)

\* C38: the names of the cluster list stay pairwise distinct over every
\* call; after addOrUpdateClusterConfig(cs) each name of cs is in the list
\* once, with the config of its last occurrence in cs, and the clusters cs
\* does not name keep their config and their order; removeClusterConfig
\* takes out the named clusters that exist and no other, and returns true
\* exactly when it took one out.
C38_ClusterList ==
    [][/\ PairwiseDistinct(Clusters) => PairwiseDistinct(Clusters')
       /\ \A cs \in Batches(ClusterConfigs) :
             addOrUpdateClusterConfig(cs) =>
                /\ \A name \in NamesOf(cs) :
                      /\ Cardinality({i \in 1..Len(Clusters') :
                                         Clusters'[i].Name = name}) = 1
                      /\ \E i \in 1..Len(Clusters') :
                            Clusters'[i] = LastOccurrence(cs, name)
                /\ Others(Clusters', NamesOf(cs)) = Others(Clusters, NamesOf(cs))
       /\ \A names \in Batches(ClusterNames) :
             removeClusterConfig(names) =>
                /\ Clusters' = Others(Clusters, Named(names))
                /\ dirty' = (NamesOf(Clusters) \cap Named(names) # {})]_vars

\* C38 witness: cluster 1 was overwritten by a later config while cluster
\* 2 kept its place before cluster 3, and a removal that found a cluster
\* has returned true.
C38_Witness ==
    /\ dirty
    /\ Clusters = <<[Name |-> 2, config |-> 1], [Name |-> 1, config |-> 2],
                    [Name |-> 3, config |-> 1]>>

\* The loggers made for a path so far.
MadeFor(p) == {i \in 1..Len(created) : created[i] = p}

\* A call of GetOrCreateErrorLogger that has returned.
Returned(t) == calls[t].pc = "done"

\* C39: at most one logger is ever made for an output path, however the
\* calls of GetOrCreateErrorLogger run side by side, and every call that
\* returns a logger for the path returns that one, the entry of the path;
\* a call with a nil create function that finds no entry returns
\* ErrNoLoggerFound; and the registry gets an entry only from a call whose
\* create function made a logger, never from a call with a nil or a
\* failing create function.
C39_OneLoggerPerPath ==
    [][/\ \A p \in Paths : Cardinality(MadeFor(p)')  <= 1
       /\ \A t \in LogCallers :
             (Returned(t)' /\ calls'[t].err = "") =>
                /\ calls'[t].lg # NoLogger
                /\ calls'[t].lg = managers'[calls'[t].p]
       /\ \A t \in LogCallers :
             (calls[t].pc = "locked" /\ calls'[t].pc # "locked"
                /\ calls[t].f = "nil" /\ managers[calls[t].p] = NoLogger) =>
                /\ calls'[t].err = "ErrNoLoggerFound"
                /\ calls'[t].lg = NoLogger
                /\ calls'[t].pc = "unlock"
       /\ managers' # managers =>
             \E t \in LogCallers :
                /\ calls[t].f = "ok"
                /\ calls[t].pc = "store"
                /\ managers' = [managers EXCEPT ![calls[t].p] = calls[t].lg]
                /\ managers[calls[t].p] = NoLogger
                /\ created[calls[t].lg] = calls[t].p]_vars

\* C39 witness: two calls for path 1 that both brought a create function
\* have returned, with the same logger, the only one made for the path,
\* while a call for path 2 with a nil create function was told
\* ErrNoLoggerFound and path 2 has no entry.
C39_Witness ==
    /\ \E t, u \in LogCallers :
          /\ t # u
          /\ Returned(t) /\ Returned(u)
          /\ calls[t].p = 1 /\ calls[u].p = 1
          /\ calls[t].f = "ok" /\ calls[u].f = "ok"
          /\ calls[t].lg = calls[u].lg /\ calls[t].lg # NoLogger
    /\ Cardinality(MadeFor(1)) = 1
    /\ \E t \in LogCallers :
          /\ Returned(t) /\ calls[t].p = 2 /\ calls[t].f = "nil"
          /\ calls[t].err = "ErrNoLoggerFound"
    /\ managers[2] = NoLogger

\* The header of the request came whole, the body of the announced length
\* came whole, and the body decodes.
Succeeds(req) ==
    /\ req.header = 4
    /\ req.size <= Len(req.wire)
    /\ Decodable(SubSeq(req.wire, 1, req.size))

\* C40: the server answers every connection it has served with exactly
\* one status byte, 0 exactly when the header, the whole body of the
\* announced length and the decoding of the body succeeded and not 0
\* otherwise; and the store is changed only by a body of which exactly the
\* announced number of bytes was read.
C40_OneStatusByte ==
    [][nServed' > nServed =>
         /\ Len(reply') = 1
         /\ reply'[1] = 0 <=> Succeeds(request')
         /\ serverStore' # serverStore =>
               /\ request'.header = 4
               /\ request'.size <= Len(request'.wire)]_vars

====
